---- MODULE Spec2Model ----
(***************************************************************************)
(* A model of the Llamux kernel module: the /proc/llamux/prompt request    *)
(* handoff (llama_proc.c, main.c), the inference driver (llama_model.c),   *)
(* the bump arena it allocates from (ggml_kernel.c), the GGUF parsers      *)
(* (gguf_parser.c) and the quantization codec (quantize.c).                *)
(*                                                                         *)
(* The specifications share the operators below.                           *)
(*   Spec        the mailbox: producers writing the prompt endpoint, a     *)
(*               reader, the inference kthread and module exit, each       *)
(*               split at the points where another thread can interleave.  *)
(*   DriverSpec  the driver alone: llama_generate run one llama_eval at a  *)
(*               time on one inference state, plus direct llama_eval calls.*)
(*   LoadSpec    llama_init and llama_load_model, one step of the load      *)
(*               pipeline at a time, over the model files it can be given.  *)
(*   ParserSpec  the GGUF parsers of gguf_parser.c on files given byte by   *)
(*               byte.                                                      *)
(*   ArenaSpec   the tensor library called directly: ggml_new_tensor,      *)
(*               ggml_add, ggml_mul, ggml_build_forward and                 *)
(*               ggml_graph_compute on slabs of every alignment.            *)
(*   RewindSpec  DriverSpec on a model deep enough for llama_generate to    *)
(*               rewind the arena between forward passes.                   *)
(*   ForwardSpec one llama_eval, tensor by tensor, on slabs that run out    *)
(*               at every position of the forward pass.                     *)
(*   VocabSpec   DriverSpec on models whose vocabulary is as large as the   *)
(*               model files give it.                                       *)
(*   GraphSpec   ggml_build_forward on every expression of a few tensors.   *)
(*   QuantSpec   the quantization codec and the matrix kernels, one FPU     *)
(*               acquire, release or use at a time.                         *)
(***************************************************************************)
EXTENDS Integers, Sequences, FiniteSets, TLC

VARIABLES
    \* ---- mailbox (struct llama_state of main.c, prompt_buffer of llama_proc.c)
    request_pending,    \* atomic_t request_pending
    lock,               \* holder of llama_state.lock, or "free"
    should_stop,        \* kthread_should_stop() of the inference thread
    initialized,        \* llama_state.initialized
    bufs,               \* "live" or "null": current_prompt / current_response
    prompt_buffer,      \* static char prompt_buffer[]: the bytes a submit can touch
    current_prompt,     \* C string held in llama_state.current_prompt
    current_response,   \* C string held in llama_state.current_response
    resp_writing,       \* the worker is between the first and last byte of a response
    pc,                 \* position of every thread
    nsub,               \* submits each producer has started
    pcopied,            \* bytes copy_from_user has stored so far, per producer
    nread,              \* reads the reader has started
    wret,               \* n_generated of the worker's current llama_generate
    wout,               \* output text of the worker's current llama_generate
    \* ---- inference state and arena (struct llama_state, struct ggml_context)
    hp,                 \* hyper-parameters and slab size fixed at load
    inf,                \* n_past, n_tokens, cache.n, cache cells, logits, mem_used, n_objects
    gen,                \* the llama_generate call in progress (DriverSpec)
    \* ---- history, read by the properties only
    h_accepts,          \* submits Accepted since the worker last cleared the flag
    h_last_accepted,    \* prompt (as submitted, newline stripped) of the last Accepted
    h_claimed,          \* prompt the worker handed to llama_generate
    h_resp_for,         \* prompt the worker wrote the current response for
    h_result,           \* outcome of each producer's last submit
    h_read,             \* what the last read returned, and the state it read in
    h_outputs,          \* per prompt, every outcome a finished generation produced
    h_eval,             \* the last llama_eval: its arguments, result and effect
    \* ---- module load (llama_init, llama_load_model of main.c)
    ld,                 \* position in llama_init, the model file, what was loaded
    \* ---- GGUF parsing (gguf_parser.c)
    pf,                 \* the file being parsed and what each parser returned
    \* ---- the tensor library called directly (ggml_kernel.c)
    ar,                 \* tensors created, the graph built, what the last call returned
    \* ---- one forward pass, operation by operation (llama_model.c)
    fw,                 \* operations that succeeded, the value eval returned
    \* ---- the quantization codec and the kernels that use it (quantize.c, ggml_kernel.c)
    qz                  \* the kernel call in progress, its input and what it wrote

vars == << request_pending, lock, should_stop, initialized, bufs, prompt_buffer,
           current_prompt, current_response, resp_writing, pc, nsub, pcopied,
           nread, wret, wout, hp, inf, gen,
           h_accepts, h_last_accepted, h_claimed, h_resp_for, h_result, h_read,
           h_outputs, h_eval, ld, pf, ar, fw, qz >>

mailboxVars == << request_pending, lock, should_stop, initialized, bufs,
                  prompt_buffer, current_prompt, current_response, resp_writing,
                  pc, nsub, pcopied, nread, wret, wout,
                  h_accepts, h_last_accepted, h_claimed, h_resp_for, h_result,
                  h_read >>

driverVars == << gen, h_outputs, h_eval >>

\* State of the specifications that do not run the mailbox or the driver.
auxVars == << ld, pf, ar, fw, qz >>

(***************************************************************************)
(* Bounds of the model.                                                    *)
(***************************************************************************)
MaxSubmits     == 1      \* submits per producer
MaxPromptLen   == 2      \* bytes of the longest prompt a producer writes
MaxReads       == 1      \* reads of the prompt endpoint
MaxGenerations == 3      \* llama_generate calls in DriverSpec
MaxDirectEvals == 1      \* direct llama_eval calls in DriverSpec
VocabHeadroom  == 40000000 \* further slab bytes for a pass over LLAMA_N_VOCAB logits
ArenaHeadroom  == 100000 \* slab bytes left after the weights and the KV cache
MaxArrayLen    == 2      \* elements of the longest metadata array in a file
U64_FAR        == 16777216 \* 64-bit values are exact within this distance of 0
MaxTensors     == 3      \* tensors a direct caller of the library creates
ArenaRoom      == 704    \* slab bytes after the context: three tensors and 32
ArenaOddBytes  == { 0, 4, 14 } \* slab bytes beyond a multiple of 32
RewindLayers   == 80     \* layers of the model in RewindSpec
RewindHeadroom == 1000000 \* slab bytes after the KV cache in RewindSpec
MaxForwardOps  == 31     \* tensors the largest slab of ForwardSpec has room for
MaxMatRows     == 33     \* rows of the largest weight matrix of QuantSpec
MaxGraphTensors == 4     \* tensors a caller of GraphSpec creates

(***************************************************************************)
(* Program constants.                                                      *)
(***************************************************************************)
GGML_MAX_NODES     == 4096
GGML_TENSOR_ALIGN  == 32
GGML_MAX_DIMS      == 4
SIZEOF_TENSOR      == 192     \* sizeof(struct ggml_tensor), LP64
SIZEOF_CONTEXT     == 32800   \* sizeof(struct ggml_context), LP64
F32_SIZE           == 4
TEST_CTX           == 2048    \* state->cache.capacity
TEST_VOCAB         == 1000    \* floats of state->logits
LLAMA_N_VOCAB      == 32000   \* n_vocab when the file names no vocabulary size
PROMPT_BUFFER_SIZE == 512
MAX_TOKENS_BUF     == 512     \* int32_t tokens[512] of llama_generate
MAX_GEN_BUF        == 256     \* int32_t generated_tokens[256]
WORKER_MAX_TOKENS  == 10      \* max_tokens the inference thread passes
WORKER_MAX_LENGTH  == 512     \* max_length the inference thread passes
REWIND_OBJECTS     == 2000    \* "first ~2000 objects are model weights"
EOS_TOKEN          == 2
BOS_TOKEN          == 1
SPACE_TOKEN        == 4
TOKEN_A            == 6       \* simple_vocab[6] = "a"
UNK_TOKEN          == 0
EINVAL             == 22
ENOMEM             == 12
EIO                == 5
SIZEOF_GGUF_HEADER == 24
GGUF_MAGIC_BYTES   == << 71, 71, 85, 70 >>
GGUF_VERSION_V2    == 2
GGUF_VERSION_V3    == 3
GGUF_TYPE_UINT32   == 4
GGUF_TYPE_STRING   == 8
GGUF_TYPE_ARRAY    == 9
GGUF_MAX_DIMS      == 4
GGUF_DATA_ALIGN    == 32
QK_K               == 256
K_SCALE_SIZE       == 12
GGML_TYPE_F32      == 0
GGML_TYPE_F16      == 1
GGML_TYPE_Q4_0     == 2
GGML_TYPE_Q4_K     == 12
GGML_TYPE_Q5_K     == 13
GGML_TYPE_Q6_K     == 14
GGML_TYPE_Q8_K     == 15

Min(a, b) == IF a < b THEN a ELSE b

ALIGN(x, a) == ((x + a - 1) \div a) * a

\* F applied to the value of x: x is computed once, however often F uses it.
Bind(x, F(_)) == CHOOSE r \in { F(v) : v \in { x } } : TRUE

(***************************************************************************)
(* Text.  A C string is a sequence of characters; NUL ends it.             *)
(***************************************************************************)
NUL == "\\0"
NL  == "\\n"
SP  == " "

isspace(c) == c \in {NL, SP}

tolower(c) == IF c = "A" THEN "a" ELSE IF c = "B" THEN "b" ELSE c

RECURSIVE CStrFrom(_, _)
CStrFrom(buf, i) ==
    IF i > Len(buf) \/ buf[i] = NUL THEN << >>
    ELSE << buf[i] >> \o CStrFrom(buf, i + 1)

\* The C string stored at the start of a character array.
CStr(buf) == CStrFrom(buf, 1)

\* simple_vocab lookup, for the words the model's alphabet {A, B} can form:
\* "a" is entry 6, every other such word is unknown (0).
VocabLookup(word) == IF word = << "a" >> THEN TOKEN_A ELSE UNK_TOKEN

\* simple_vocab[id] for the ids the model can produce (n_vocab <= 7).
TokenText(id) ==
    IF id = UNK_TOKEN THEN "<unk>"
    ELSE IF id = SPACE_TOKEN THEN " "
    ELSE IF id = 5 THEN "the"
    ELSE IF id = TOKEN_A THEN "a"
    ELSE ""

\* strlen(simple_vocab[id])
TokenLen(id) ==
    IF id = UNK_TOKEN THEN 5
    ELSE IF id = SPACE_TOKEN THEN 1
    ELSE IF id = 5 THEN 3
    ELSE IF id = TOKEN_A THEN 1
    ELSE 0

\* The word-splitting loop of llama_tokenize_simple: p is the position in text,
\* word the word being collected, toks what has been emitted.
RECURSIVE TokLoop(_, _, _, _, _)
TokLoop(text, p, word, toks, max_tokens) ==
    IF p > Len(text) \/ ~(Len(toks) < max_tokens - 1) THEN
        [toks |-> toks, word |-> word]
    ELSE IF isspace(text[p]) THEN
        IF Len(word) > 0 THEN
            LET t1 == Append(toks, VocabLookup(word))
                t2 == IF Len(t1) < max_tokens - 1 /\ p + 1 <= Len(text)
                      THEN Append(t1, SPACE_TOKEN) ELSE t1
            IN TokLoop(text, p + 1, << >>, t2, max_tokens)
        ELSE TokLoop(text, p + 1, word, toks, max_tokens)
    ELSE TokLoop(text, p + 1, Append(word, tolower(text[p])), toks, max_tokens)

llama_tokenize(text, max_tokens) ==
    LET t0 == IF 0 < max_tokens THEN << BOS_TOKEN >> ELSE << >>
        r  == TokLoop(text, 1, << >>, t0, max_tokens)
        t1 == IF Len(r.word) > 0 /\ Len(r.toks) < max_tokens - 1
              THEN Append(r.toks, VocabLookup(r.word)) ELSE r.toks
    IN IF Len(t1) < max_tokens THEN Append(t1, EOS_TOKEN) ELSE t1

\* The loop of llama_detokenize from token i on, pos bytes already written.
\* The text is kept as the sequence of the token texts appended.
RECURSIVE DetokLoop(_, _, _, _)
DetokLoop(toks, i, pos, max_length) ==
    IF i > Len(toks) THEN << >>
    ELSE IF toks[i] \in {BOS_TOKEN, EOS_TOKEN, 3} THEN
        DetokLoop(toks, i + 1, pos, max_length)
    ELSE IF pos + TokenLen(toks[i]) < max_length - 1 THEN
        << TokenText(toks[i]) >>
            \o DetokLoop(toks, i + 1, pos + TokenLen(toks[i]), max_length)
    ELSE << >>

llama_detokenize(toks, max_length) == DetokLoop(toks, 1, 0, max_length)

(***************************************************************************)
(* The arena (ggml_kernel.c).  Of struct ggml_context the model keeps the  *)
(* cursor mem_used and the object count n_objects; they are fields of inf. *)
(***************************************************************************)

\* ggml_element_size for the two types the driver creates tensors of.  I32
\* has no entry in GGML_TYPE_SIZE (it is not below GGML_TYPE_COUNT of
\* ggml_kernel.h), so its element size is 0 and the index tensor of
\* llama_eval gets no data bytes.
ggml_element_size(type) == IF type = "F32" THEN F32_SIZE ELSE 0

\* ggml_new_tensor_impl with data == NULL: can a tensor of `bytes` data bytes
\* be carved?  The test adds the unaligned data size to the cursor.
ggml_can_alloc(s, bytes) ==
    /\ ~(s.n_objects >= GGML_MAX_NODES)
    /\ ~(s.mem_used + ALIGN(SIZEOF_TENSOR, GGML_TENSOR_ALIGN) + bytes > hp.mem_size)

\* ... and the arena after carving it.
ggml_new_tensor(s, bytes) ==
    [s EXCEPT !.mem_used = ALIGN(s.mem_used + ALIGN(SIZEOF_TENSOR, GGML_TENSOR_ALIGN)
                                    + bytes, GGML_TENSOR_ALIGN),
              !.n_objects = s.n_objects + 1]

\* Data bytes of the 25 tensors llama_layer_forward creates for a T-token
\* batch, in creation order (attention: entries 3..15).
LayerAllocs(T) ==
    LET d  == hp.n_embd
        f  == hp.n_ff
        dT == F32_SIZE * d * T
        TT == F32_SIZE * T * T
        Tf == F32_SIZE * T * f
    IN << dT, dT,                 \* rms_norm, mul attention_norm
          dT, dT, dT,             \* q, k, v = mul_mat(w, input)
          dT, dT,                 \* rope q, rope k
          dT, dT,                 \* q_t, k_t
          TT, TT, TT,             \* scores, scale, soft_max
          dT, dT, dT,             \* mul_mat(v, scores), transpose, mul_mat(wo, .)
          dT,                     \* add(input, attn_out)
          dT, dT,                 \* rms_norm, mul ffn_norm
          Tf, Tf, Tf, Tf,         \* gate, up, silu, mul
          Tf,                     \* transpose
          dT,                     \* mul_mat(w2, cur_t)
          dT >>                   \* add(ffn_input, cur)

RECURSIVE AllLayerAllocs(_, _)
AllLayerAllocs(T, n) ==
    IF n = 0 THEN << >> ELSE LayerAllocs(T) \o AllLayerAllocs(T, n - 1)

\* Data bytes of every tensor one llama_eval creates, in creation order.
EvalAllocs(T) ==
    << ggml_element_size("I32") * T, F32_SIZE * hp.n_embd * T >>    \* embd, get_rows
        \o AllLayerAllocs(T, hp.n_layer)
        \o << F32_SIZE * hp.n_embd * T >>                 \* final rms_norm
        \o (IF hp.has_norm THEN << F32_SIZE * hp.n_embd * T >> ELSE << >>)
        \o (IF hp.has_output THEN << F32_SIZE * T * hp.n_vocab >> ELSE << >>)

\* Number of tensors of an eval that exist when llama_attention of layer 0
\* reaches its cache update (embd, get_rows, rms_norm, mul, q, k, v, 2 rope).
AllocsBeforeCacheUpdate == 9

\* Carve the tensors sizes[lo..hi] in order, stopping at the first that
\* fails (every operation returns NULL on a NULL operand, so nothing is
\* carved after a failure).  done counts the tensors carved.  The range is
\* halved instead of walked so that the evaluation stays shallow.
RECURSIVE AllocRange(_, _, _, _)
AllocRange(s, sizes, lo, hi) ==
    IF lo = hi THEN
        IF ggml_can_alloc(s, sizes[lo])
        THEN [s |-> ggml_new_tensor(s, sizes[lo]), ok |-> TRUE, done |-> 1]
        ELSE [s |-> s, ok |-> FALSE, done |-> 0]
    ELSE
        Bind(AllocRange(s, sizes, lo, (lo + hi) \div 2), LAMBDA a :
            IF ~a.ok THEN a
            ELSE Bind(AllocRange(a.s, sizes, (lo + hi) \div 2 + 1, hi), LAMBDA b :
                    [s |-> b.s, ok |-> b.ok, done |-> a.done + b.done]))

\* The tensors of one eval, carved in creation order.
AllocSeq(s, sizes) == AllocRange(s, sizes, 1, Len(sizes))

(***************************************************************************)
(* The inference driver (llama_model.c).                                   *)
(***************************************************************************)

\* The logits buffer: zero-filled by kzalloc, or the values one forward pass
\* computed.  A pass is named by what determines it: its tokens and n_past.
ZeroLogits == [written |-> FALSE, tokens |-> << >>, n_past |-> 0]

LogitsOfPass(tokens, n_past) ==
    [written |-> TRUE, tokens |-> tokens, n_past |-> n_past]

\* The first dimension of the tensor llama_eval ends with: mul_mat(output,
\* cur) is [cur.ne[1], output.ne[1]] = [T, n_vocab]; without output.weight
\* cur stays [n_embd, T].
FinalNe0(T) == IF hp.has_output THEN T ELSE hp.n_embd

\* The cache update of llama_attention: it reads n_past from the state, sets
\* the fill count and stores no key or value.
CacheUpdate(s) == [s EXCEPT !.cache_n = s.n_past + 1]

\* The guard of the logits copy at the end of llama_eval.
LogitsCopied(T) == FinalNe0(T) = hp.n_vocab

\* A copy or a scan that extends over the first n floats of the logits
\* buffer: logits_used is the largest extent so far.
LogitsTouched(s, n) ==
    [s EXCEPT !.logits_used = IF n > @ THEN n ELSE @]

\* The tensor that could not be carved after `done` were is the result of
\* the FFN rms_norm of a layer (17th of its 25 tensors) or of the mul by
\* ffn_norm (18th).  llama_layer_forward does not test these two: the FFN
\* block starts by printing cur->ne[0] of the NULL result.
FfnNormFailed(done) ==
    LET first == 3                            \* embd and get_rows come first
        per   == Len(LayerAllocs(1))
        f     == done + 1
    IN /\ f >= first
       /\ f < first + per * hp.n_layer
       /\ ((f - first) % per) + 1 \in {17, 18}

\* llama_eval once its tensors have been created: a is what AllocSeq gave.
\* With oops set the call read through a NULL pointer and did not return.
EvalAfterAllocs(a, n_allocs, tokens, n_past) ==
    LET T  == Len(tokens)
        s1 == IF hp.n_layer > 0 /\ a.done >= AllocsBeforeCacheUpdate
              THEN CacheUpdate(a.s) ELSE a.s
    IN IF a.done < n_allocs
       THEN [s |-> s1, ret |-> -EINVAL, oops |-> FfnNormFailed(a.done)]
       ELSE [oops |-> FALSE,
             s |-> [(IF LogitsCopied(T) THEN LogitsTouched(s1, hp.n_vocab) ELSE s1)
                    EXCEPT
                      !.logits   = IF LogitsCopied(T)
                                   THEN LogitsOfPass(tokens, n_past) ELSE @,
                      !.n_tokens = T,
                      !.n_past   = n_past + T],
             ret |-> 0]

\* llama_eval: the state after the call and the value returned.
llama_eval(s, tokens, n_past) ==
    IF Len(tokens) <= 0 THEN [s |-> s, ret |-> -EINVAL, oops |-> FALSE]
    ELSE Bind(EvalAllocs(Len(tokens)), LAMBDA sizes :
            Bind(AllocSeq(s, sizes), LAMBDA a :
               EvalAfterAllocs(a, Len(sizes), tokens, n_past)))

\* llama_state_reset: counters to zero, KV data zeroed; logits and arena kept.
llama_state_reset(s) ==
    [s EXCEPT !.n_tokens = 0, !.n_past = 0, !.cache_n = 0, !.cache_cells = {}]

RECURSIVE SumSeq(_)
SumSeq(q) == IF q = << >> THEN 0 ELSE Head(q) + SumSeq(Tail(q))

\* The index of the largest logit of a computed pass.  The arithmetic of the
\* forward pass is not modelled; a fixed function of the pass stands for it.
ArgMaxOfPass(l) == (SumSeq(l.tokens) + l.n_past) % hp.n_vocab

\* llama_sample_token: greedy; the scan starts at 0 and moves only on a
\* strictly larger logit, so a zero-filled buffer yields token 0.
llama_sample_token(s) ==
    IF s.logits.written THEN ArgMaxOfPass(s.logits) ELSE 0

\* The reads of llama_sample_token: logits[0], then logits[i] for every
\* 1 <= i < n_vocab.
SampleScan(s) == LogitsTouched(s, IF hp.n_vocab > 1 THEN hp.n_vocab ELSE 1)

\* The arena "rewind" llama_generate performs before each one-token eval.
ArenaRewind(s) ==
    IF s.n_objects > REWIND_OBJECTS
    THEN [s EXCEPT !.n_objects = REWIND_OBJECTS, !.mem_used = s.mem_used \div 2]
    ELSE s

\* llama_generate up to and including the prompt eval.  g is the rest of
\* the call's frame: phase "loop" while the token loop runs, "detok" when it
\* has ended, "failed" when the call returned -1 before the loop, "oops"
\* when llama_eval did not return.
GenerateStart(s, prompt, max_tokens) ==
    Bind(llama_tokenize(prompt, MAX_TOKENS_BUF), LAMBDA tokens :
      Bind(llama_state_reset(s), LAMBDA s0 :
        IF Len(tokens) <= 0 THEN
           [s |-> s0, ev |-> [ran |-> FALSE, tokens |-> tokens, n_past |-> 0, ret |-> -EINVAL],
            g |-> [phase |-> "failed", generated |-> << >>, i |-> 0, n_generated |-> 0]]
        ELSE
           Bind(llama_eval(s0, tokens, 0), LAMBDA e :
             [s |-> e.s, ev |-> [ran |-> ~e.oops, tokens |-> tokens, n_past |-> 0, ret |-> e.ret],
              g |-> [phase |-> IF e.oops THEN "oops"
                               ELSE IF e.ret < 0 THEN "failed"
                               ELSE IF 0 < max_tokens /\ 0 < MAX_GEN_BUF
                                    THEN "loop" ELSE "detok",
                     generated |-> << >>, i |-> 0, n_generated |-> 0]])))

\* One iteration of the token loop once the token is sampled and, unless it
\* is EOS, evaluated: e is what llama_eval returned on the rewound state s1.
StepAfterEval(s, g, next_token, s1, e, max_tokens) ==
    LET gen1 == Append(g.generated, next_token)
        ev   == [ran |-> ~e.oops, tokens |-> << next_token >>, n_past |-> s1.n_past,
                 ret |-> e.ret]
    IN IF e.oops THEN
           [s |-> e.s, ev |-> ev,
            g |-> [g EXCEPT !.phase = "oops", !.generated = gen1]]
       ELSE IF e.ret < 0 THEN
           [s |-> e.s, ev |-> ev,
            g |-> [g EXCEPT !.phase = "detok", !.generated = gen1]]
       ELSE
           [s |-> e.s, ev |-> ev,
            g |-> [g EXCEPT !.generated = gen1,
                            !.n_generated = g.n_generated + 1,
                            !.i = g.i + 1,
                            !.phase = IF g.i + 1 < max_tokens /\ Len(gen1) < MAX_GEN_BUF
                                      THEN "loop" ELSE "detok"]]

\* One iteration of the token loop, and the loop test that follows it.
GenerateStep(s0, g, max_tokens) ==
    Bind(SampleScan(s0), LAMBDA s :
    Bind(llama_sample_token(s), LAMBDA next_token :
        IF next_token < 0 \/ next_token = EOS_TOKEN THEN
            [s |-> s, ev |-> [ran |-> FALSE, tokens |-> << >>, n_past |-> 0, ret |-> -EINVAL],
             g |-> [g EXCEPT !.phase = "detok"]]
        ELSE
            Bind(ArenaRewind(s), LAMBDA s1 :
               Bind(llama_eval(s1, << next_token >>, s1.n_past), LAMBDA e :
                  StepAfterEval(s, g, next_token, s1, e, max_tokens)))))

\* What the call hands back: the return value, and the output text when the
\* call got as far as writing it; oops when it did not return.
GenerateResult(g, max_length) ==
    IF g.phase = "oops"
    THEN [ret |-> 0, wrote |-> FALSE, text |-> << >>, oops |-> TRUE]
    ELSE IF g.phase = "failed"
    THEN [ret |-> -1, wrote |-> FALSE, text |-> << >>, oops |-> FALSE]
    ELSE [ret |-> g.n_generated, wrote |-> TRUE,
          text |-> llama_detokenize(g.generated, max_length), oops |-> FALSE]

RECURSIVE GenerateLoop(_, _, _)
GenerateLoop(s, g, max_tokens) ==
    IF g.phase = "loop"
    THEN Bind(GenerateStep(s, g, max_tokens), LAMBDA r :
              GenerateLoop(r.s, r.g, max_tokens))
    ELSE [s |-> s, g |-> g]

\* llama_generate as one call.
llama_generate(s, prompt, max_length, max_tokens) ==
    Bind(GenerateStart(s, prompt, max_tokens), LAMBDA a :
       Bind(GenerateLoop(a.s, a.g, max_tokens), LAMBDA r :
          [s |-> r.s, res |-> GenerateResult(r.g, max_length)]))

(***************************************************************************)
(* GGUF files (gguf_parser.c).  A file is a sequence of bytes 0..255; the  *)
(* byte at offset o is buf[o + 1].  Every parser reports, besides what the  *)
(* code returns, whether it read a byte outside the buffer (oob): what     *)
(* happens after such a read is not defined by the code.                   *)
(***************************************************************************)

\* A 64-bit unsigned value v is held as v when v < 2^31 and as v - 2^64
\* when v >= 2^64 - 2^31, so sums and differences wrap as they do in the code.
U64Lt(a, b) == IF (a < 0) = (b < 0) THEN a < b ELSE b < 0
U64Gt(a, b) == U64Lt(b, a)

\* Little-endian value of the n bytes at offset off (all inside buf).
\* Values of U64_FAR and beyond are held at U64_FAR.
RECURSIVE LEValue(_, _, _)
LEValue(buf, off, n) ==
    IF n = 0 THEN 0
    ELSE LET hi == LEValue(buf, off + 1, n - 1)
         IN IF hi >= U64_FAR \div 256 THEN U64_FAR ELSE hi * 256 + buf[off + 1]

\* Two's complement reading of n bytes whose top bit is set.
RECURSIVE LENegValue(_, _, _)
LENegValue(buf, off, n) ==
    IF n = 0 THEN 0
    ELSE LET hi == LENegValue(buf, off + 1, n - 1)
         IN IF hi >= U64_FAR \div 256 THEN U64_FAR ELSE hi * 256 + (255 - buf[off + 1])

U32At(buf, off) == LEValue(buf, off, 4)

U64At(buf, off) ==
    IF buf[off + 8] >= 128 THEN -(LENegValue(buf, off, 8)) - 1
    ELSE LEValue(buf, off, 8)

\* memcpy(dst, data + off, n) stays inside the buffer of size bytes.
InBuf(buf, off, n) == off >= 0 /\ n >= 0 /\ off + n <= Len(buf)

KEY_GENERAL_NAME     == << 103, 101, 110, 101, 114, 97, 108, 46, 110, 97, 109, 101 >>
KEY_GENERAL_ARCH     == << 103, 101, 110, 101, 114, 97, 108, 46, 97, 114, 99, 104, 105, 116, 101, 99, 116, 117, 114, 101 >>
KEY_CONTEXT_LENGTH   == << 108, 108, 97, 109, 97, 46, 99, 111, 110, 116, 101, 120, 116, 95, 108, 101, 110, 103, 116, 104 >>
KEY_EMBEDDING_LENGTH == << 108, 108, 97, 109, 97, 46, 101, 109, 98, 101, 100, 100, 105, 110, 103, 95, 108, 101, 110, 103, 116, 104 >>
KEY_BLOCK_COUNT      == << 108, 108, 97, 109, 97, 46, 98, 108, 111, 99, 107, 95, 99, 111, 117, 110, 116 >>
KEY_HEAD_COUNT       == << 108, 108, 97, 109, 97, 46, 97, 116, 116, 101, 110, 116, 105, 111, 110, 46, 104, 101, 97, 100, 95, 99, 111, 117, 110, 116 >>
KEY_HEAD_COUNT_KV    == << 108, 108, 97, 109, 97, 46, 97, 116, 116, 101, 110, 116, 105, 111, 110, 46, 104, 101, 97, 100, 95, 99, 111, 117, 110, 116, 95, 107, 118 >>
KEY_FEED_FORWARD     == << 108, 108, 97, 109, 97, 46, 102, 101, 101, 100, 95, 102, 111, 114, 119, 97, 114, 100, 95, 108, 101, 110, 103, 116, 104 >>
KEY_ROPE_DIM         == << 108, 108, 97, 109, 97, 46, 114, 111, 112, 101, 46, 100, 105, 109, 101, 110, 115, 105, 111, 110, 95, 99, 111, 117, 110, 116 >>
ARCH_LLAMA           == << 108, 108, 97, 109, 97 >>

\* The bytes of a C string: what strcmp sees of a kzalloc'ed copy.
CBytes(s) ==
    LET nul == { i \in 1..Len(s) : s[i] = 0 }
    IN IF nul = {} THEN s
       ELSE SubSeq(s, 1, (CHOOSE i \in nul : \A j \in nul : i <= j) - 1)

\* ggml_type_size of gguf_parser.c: bytes per element or per block.
ggml_type_size(type) ==
    CASE type = 0  -> 4
      [] type = 1  -> 2
      [] type = 2  -> 18
      [] type = 3  -> 20
      [] type = 12 -> 144
      [] type = 13 -> 176
      [] type = 14 -> 210
      [] type = 15 -> 292
      [] OTHER     -> 0

\* total_elements *= dims[i]; products of U64_FAR and beyond are held there.
RECURSIVE DimsProduct(_)
DimsProduct(dims) ==
    IF dims = << >> THEN 1
    ELSE LET a == Head(dims)
             b == DimsProduct(Tail(dims))
         IN IF a = 0 \/ b = 0 THEN 0
            ELSE IF a < 0 \/ a >= U64_FAR \/ b >= U64_FAR \/ a > U64_FAR \div b
                 THEN U64_FAR ELSE a * b

\* ggml_tensor_size: elements times element size, or blocks times block size.
ggml_tensor_size(type, dims) ==
    LET total_elements == DimsProduct(dims)
        block_size == IF type \in {12, 13, 14, 15} THEN 256 ELSE 32
    IN IF type >= 2 /\ type <= 15
       THEN ((total_elements + block_size - 1) \div block_size) * ggml_type_size(type)
       ELSE total_elements * ggml_type_size(type)

\* gguf_parse_header: size test, the four fields, magic and version tests.
gguf_parse_header(buf) ==
    IF Len(buf) < SIZEOF_GGUF_HEADER
    THEN [ret |-> -EINVAL, version |-> 0, tensor_count |-> 0, metadata_kv_count |-> 0]
    ELSE LET version == U32At(buf, 4)
             bad == \/ SubSeq(buf, 1, 4) # GGUF_MAGIC_BYTES
                    \/ (version # GGUF_VERSION_V2 /\ version # GGUF_VERSION_V3)
         IN [ret |-> IF bad THEN -EINVAL ELSE 0,
             version |-> version,
             tensor_count |-> U64At(buf, 8),
             metadata_kv_count |-> U64At(buf, 16)]

\* read_gguf_string: the length, then memcpy of that many bytes, neither
\* tested against the end of the buffer.  (kzalloc is taken to succeed.)
read_gguf_string(buf, ptr) ==
    IF ~InBuf(buf, ptr, 8) THEN [ub |-> "read_past_end", ptr |-> ptr, str |-> << >>]
    ELSE LET length == U64At(buf, ptr)
         IN IF ~InBuf(buf, ptr + 8, length)
            THEN [ub |-> "read_past_end", ptr |-> ptr + 8, str |-> << >>]
            ELSE [ub |-> "none", ptr |-> ptr + 8 + length,
                  str |-> SubSeq(buf, ptr + 9, ptr + 8 + length)]

\* The string case of the array loop: both steps are tested against end.
RECURSIVE SkipStringArray(_, _, _, _)
SkipStringArray(buf, ptr, j, arr_len) ==
    IF ~U64Lt(j, arr_len) THEN [ub |-> "none", ret |-> 0, ptr |-> ptr]
    ELSE IF ptr + 8 > Len(buf) THEN [ub |-> "none", ret |-> -EINVAL, ptr |-> ptr]
    ELSE IF ~InBuf(buf, ptr, 8) THEN [ub |-> "read_past_end", ret |-> 0, ptr |-> ptr]
    ELSE LET str_len == U64At(buf, ptr)
         IN IF ptr + 8 + str_len > Len(buf)
            THEN [ub |-> "none", ret |-> -EINVAL, ptr |-> ptr + 8]
            ELSE SkipStringArray(buf, ptr + 8 + str_len, j + 1, arr_len)

\* The switch that skips the value of a key the parser does not interpret.
SkipValue(buf, ptr, value_type) ==
    CASE value_type \in {0, 1, 7}    -> [ub |-> "none", ret |-> 0, ptr |-> ptr + 1]
      [] value_type \in {2, 3}       -> [ub |-> "none", ret |-> 0, ptr |-> ptr + 2]
      [] value_type \in {4, 5, 6}    -> [ub |-> "none", ret |-> 0, ptr |-> ptr + 4]
      [] value_type \in {10, 11, 12} -> [ub |-> "none", ret |-> 0, ptr |-> ptr + 8]
      [] value_type = 8 ->
            IF ~InBuf(buf, ptr, 8) THEN [ub |-> "read_past_end", ret |-> 0, ptr |-> ptr]
            ELSE [ub |-> "none", ret |-> 0, ptr |-> ptr + 8 + U64At(buf, ptr)]
      [] value_type = 9 ->
            IF ~InBuf(buf, ptr, 12) THEN [ub |-> "read_past_end", ret |-> 0, ptr |-> ptr]
            ELSE LET arr_type == U32At(buf, ptr)
                     arr_len  == U64At(buf, ptr + 4)
                     p        == ptr + 12
                 IN IF arr_len = 0 THEN [ub |-> "none", ret |-> 0, ptr |-> p]
                    ELSE CASE arr_type \in {4, 5, 6} ->
                                 [ub |-> "none", ret |-> 0, ptr |-> p + 4 * arr_len]
                           [] arr_type = 12 ->
                                 [ub |-> "none", ret |-> 0, ptr |-> p + 8 * arr_len]
                           [] arr_type = 8 -> SkipStringArray(buf, p, 0, arr_len)
                           [] OTHER -> [ub |-> "none", ret |-> -EINVAL, ptr |-> p]
      [] OTHER -> [ub |-> "none", ret |-> 0, ptr |-> ptr]

\* The fields of struct gguf_model the metadata keys fill in.
NoMetadata ==
    [model_name |-> << >>, model_arch |-> << >>, context_length |-> 0,
     embedding_length |-> 0, n_layers |-> 0, n_heads |-> 0, n_heads_kv |-> 0,
     feed_forward_length |-> 0, rope_dimension_count |-> 0]

\* A key whose value is read with memcpy(&model->field, ptr, sizeof(u32)).
U32Field(key) ==
    CASE key = KEY_CONTEXT_LENGTH   -> "context_length"
      [] key = KEY_EMBEDDING_LENGTH -> "embedding_length"
      [] key = KEY_BLOCK_COUNT      -> "n_layers"
      [] key = KEY_HEAD_COUNT       -> "n_heads"
      [] key = KEY_HEAD_COUNT_KV    -> "n_heads_kv"
      [] key = KEY_FEED_FORWARD     -> "feed_forward_length"
      [] key = KEY_ROPE_DIM         -> "rope_dimension_count"
      [] OTHER                      -> "none"

\* One key/value pair once the key and the value type are read: the chain
\* of strcmp tests, and the skip for every other key.
ParseValue(buf, key, value_type, ptr, m) ==
    IF key \in {KEY_GENERAL_NAME, KEY_GENERAL_ARCH} /\ value_type = GGUF_TYPE_STRING
    THEN LET s == read_gguf_string(buf, ptr)
         IN [ub |-> s.ub, ret |-> 0, ptr |-> s.ptr,
             m |-> IF s.ub # "none" THEN m
                   ELSE IF key = KEY_GENERAL_NAME
                        THEN [m EXCEPT !.model_name = CBytes(s.str)]
                        ELSE [m EXCEPT !.model_arch = CBytes(s.str)]]
    ELSE IF U32Field(key) # "none" /\ value_type = GGUF_TYPE_UINT32
    THEN IF ~InBuf(buf, ptr, 4)
         THEN [ub |-> "read_past_end", ret |-> 0, ptr |-> ptr, m |-> m]
         ELSE [ub |-> "none", ret |-> 0, ptr |-> ptr + 4,
               m |-> [m EXCEPT ![U32Field(key)] = U32At(buf, ptr)]]
    ELSE LET k == SkipValue(buf, ptr, value_type)
         IN [ub |-> k.ub, ret |-> k.ret, ptr |-> k.ptr, m |-> m]

\* The loop of gguf_parse_metadata from pair i on, the cursor at ptr.
RECURSIVE MetadataLoop(_, _, _, _, _)
MetadataLoop(buf, i, kv_count, ptr, m) ==
    IF ~U64Lt(i, kv_count) THEN [ub |-> "none", ret |-> ptr, m |-> m]
    ELSE LET k == read_gguf_string(buf, ptr)
         IN IF k.ub # "none" THEN [ub |-> k.ub, ret |-> 0, m |-> m]
            ELSE IF k.ptr >= Len(buf) THEN [ub |-> "none", ret |-> -EINVAL, m |-> m]
            ELSE IF ~InBuf(buf, k.ptr, 4) THEN [ub |-> "read_past_end", ret |-> 0, m |-> m]
            ELSE LET v == ParseValue(buf, CBytes(k.str), U32At(buf, k.ptr), k.ptr + 4, m)
                 IN IF v.ub # "none" THEN [ub |-> v.ub, ret |-> 0, m |-> m]
                    ELSE IF v.ret < 0 THEN [ub |-> "none", ret |-> v.ret, m |-> m]
                    ELSE IF v.ptr >= Len(buf)
                         THEN [ub |-> "none", ret |-> -EINVAL, m |-> v.m]
                    ELSE MetadataLoop(buf, i + 1, kv_count, v.ptr, v.m)

\* gguf_parse_metadata: the offset after the last pair, or -EINVAL.
gguf_parse_metadata(buf, kv_count) ==
    MetadataLoop(buf, 0, kv_count, SIZEOF_GGUF_HEADER, NoMetadata)

\* Reads n_dims dimensions of 8 bytes each from ptr on.
RECURSIVE ReadDims(_, _, _, _, _)
ReadDims(buf, ptr, j, n_dims, dims) ==
    IF j >= n_dims THEN [ub |-> "none", ptr |-> ptr, dims |-> dims]
    ELSE IF j >= GGUF_MAX_DIMS THEN [ub |-> "dims_overrun", ptr |-> ptr, dims |-> dims]
    ELSE IF ~InBuf(buf, ptr, 8) THEN [ub |-> "read_past_end", ptr |-> ptr, dims |-> dims]
    ELSE ReadDims(buf, ptr + 8, j + 1, n_dims, Append(dims, U64At(buf, ptr)))

\* The tensor loop of gguf_parse_tensor_info from tensor i on.
RECURSIVE TensorLoop(_, _, _, _, _)
TensorLoop(buf, i, tensor_count, ptr, tensors) ==
    IF ~U64Lt(i, tensor_count) THEN [ub |-> "none", ret |-> 0, ptr |-> ptr, tensors |-> tensors]
    ELSE LET nm == read_gguf_string(buf, ptr)
             stop(u, r) == [ub |-> u, ret |-> r, ptr |-> ptr, tensors |-> tensors]
         IN IF nm.ub # "none" THEN stop(nm.ub, 0)
            ELSE IF nm.ptr >= Len(buf) THEN stop("none", -EINVAL)
            ELSE IF ~InBuf(buf, nm.ptr, 4) THEN stop("read_past_end", 0)
            ELSE LET d == ReadDims(buf, nm.ptr + 4, 0, U32At(buf, nm.ptr), << >>)
                 IN IF d.ub # "none" THEN stop(d.ub, 0)
                    ELSE IF ~InBuf(buf, d.ptr, 12) THEN stop("read_past_end", 0)
                    ELSE LET type == U32At(buf, d.ptr)
                             t == [name |-> CBytes(nm.str), dims |-> d.dims,
                                   type |-> type, offset |-> U64At(buf, d.ptr + 4),
                                   size |-> ggml_tensor_size(type, d.dims)]
                         IN TensorLoop(buf, i + 1, tensor_count, d.ptr + 12,
                                       Append(tensors, t))

\* data_offset left at the end of the tensor directory, unaligned.
DataOffsetAfter_Unaligned(tensor_info_end) == tensor_info_end

\* model->data_offset = (tensor_info_end + 31) & ~31ULL
DataOffsetAfter(tensor_info_end) == ALIGN(tensor_info_end, GGUF_DATA_ALIGN)

\* gguf_parse_tensor_info: metadata parsed again for the offset, the tensor
\* loop, then the data offset.
gguf_parse_tensor_info(buf, header) ==
    LET md == gguf_parse_metadata(buf, header.metadata_kv_count)
    IN IF md.ub # "none" \/ md.ret < 0
       THEN [ub |-> md.ub, ret |-> md.ret, tensors |-> << >>, data_offset |-> 0]
       ELSE LET t == TensorLoop(buf, 0, header.tensor_count, md.ret, << >>)
            IN [ub |-> t.ub, ret |-> t.ret, tensors |-> t.tensors,
                data_offset |-> IF t.ub = "none" /\ t.ret = 0
                                THEN DataOffsetAfter(t.ptr) ELSE 0]

\* The copy loop of gguf_load_tensor_data from tensor i on: the two tests in
\* size_t arithmetic, then memcpy from data_offset + offset.
RECURSIVE LoadLoop(_, _, _, _, _, _)
LoadLoop(buf, data_offset, tensors, i, total_size, memory_size) ==
    IF i > Len(tensors) THEN [ub |-> "none", ret |-> 0, total_size |-> total_size]
    ELSE LET t == tensors[i]
         IN IF U64Gt(t.offset + t.size, Len(buf) - data_offset)
            THEN [ub |-> "none", ret |-> -EINVAL, total_size |-> total_size]
            ELSE IF U64Gt(total_size + t.size, memory_size)
            THEN [ub |-> "none", ret |-> -ENOMEM, total_size |-> total_size]
            ELSE IF ~InBuf(buf, data_offset + t.offset, t.size)
            THEN [ub |-> "read_past_end", ret |-> 0, total_size |-> total_size]
            ELSE LoadLoop(buf, data_offset, tensors, i + 1, total_size + t.size,
                          memory_size)

gguf_load_tensor_data(buf, data_offset, tensors, memory_size) ==
    LoadLoop(buf, data_offset, tensors, 1, 0, memory_size)

(***************************************************************************)
(* The files the parsers are run on: files written field by field as the   *)
(* format lays them out, every prefix of one of them, and files with one   *)
(* declared length, count or offset set wrong.                             *)
(***************************************************************************)

Zeros(n) == [i \in 1..n |-> 0]

EncU32(v) == << v >> \o Zeros(3)

\* 0 <= v < 256, or -256 <= v < 0 for the value 2^64 + v.
EncU64(v) ==
    IF v >= 0 THEN << v >> \o Zeros(7)
    ELSE << 256 + v, 255, 255, 255, 255, 255, 255, 255 >>

EncString(s) == EncU64(Len(s)) \o s

EncHeader(version, tensor_count, kv_count) ==
    GGUF_MAGIC_BYTES \o EncU32(version) \o EncU64(tensor_count) \o EncU64(kv_count)

\* Encoded width of a scalar of each value type.
ScalarWidth(type) ==
    CASE type \in {0, 1, 7}    -> 1
      [] type \in {2, 3}       -> 2
      [] type \in {4, 5, 6}    -> 4
      [] type \in {10, 11, 12} -> 8

\* Metadata values: a scalar, a string, or an array of values of one type.
ScalarValue(type)    == [type |-> type, s |-> << >>, et |-> 0, elems |-> << >>]
StringValue(s)       == [type |-> GGUF_TYPE_STRING, s |-> s, et |-> 0, elems |-> << >>]
ArrayValue(et, elems) == [type |-> GGUF_TYPE_ARRAY, s |-> << >>, et |-> et, elems |-> elems]

RECURSIVE EncValue(_)
RECURSIVE EncValues(_)
EncValue(v) ==
    CASE v.type = GGUF_TYPE_STRING -> EncString(v.s)
      [] v.type = GGUF_TYPE_ARRAY  ->
            EncU32(v.et) \o EncU64(Len(v.elems)) \o EncValues(v.elems)
      [] OTHER -> << 1 >> \o Zeros(ScalarWidth(v.type) - 1)
EncValues(vs) == IF vs = << >> THEN << >> ELSE EncValue(Head(vs)) \o EncValues(Tail(vs))

EncKV(kv) == EncString(kv.key) \o EncU32(kv.value.type) \o EncValue(kv.value)

RECURSIVE EncKVs(_)
EncKVs(kvs) == IF kvs = << >> THEN << >> ELSE EncKV(Head(kvs)) \o EncKVs(Tail(kvs))

RECURSIVE EncDims(_)
EncDims(dims) == IF dims = << >> THEN << >> ELSE EncU64(Head(dims)) \o EncDims(Tail(dims))

EncTensorInfo(t) ==
    EncString(t.name) \o EncU32(Len(t.dims)) \o EncDims(t.dims)
        \o EncU32(t.type) \o EncU64(t.offset)

RECURSIVE EncTensorInfos(_)
EncTensorInfos(ts) ==
    IF ts = << >> THEN << >> ELSE EncTensorInfo(Head(ts)) \o EncTensorInfos(Tail(ts))

\* A key no strcmp of the parser matches: "k".
UNKNOWN_KEY == << 107 >>

\* One F32 tensor of 8 elements, named "t", at the start of the data region.
PlainTensor == [name |-> << 116 >>, dims |-> << 8 >>, type |-> 0, offset |-> 0]

\* A file: header, metadata, tensor directory, padding to the data
\* alignment, data_bytes bytes of tensor data.  meta_end and data_start are
\* where the metadata and the padded directory end.
GgufFile(kvs, tensors, data_bytes) ==
    LET head == EncHeader(GGUF_VERSION_V3, Len(tensors), Len(kvs)) \o EncKVs(kvs)
        dir  == head \o EncTensorInfos(tensors)
        data_start == ALIGN(Len(dir), GGUF_DATA_ALIGN)
    IN [bytes |-> dir \o Zeros(IF data_bytes > 0 THEN data_start - Len(dir) ELSE 0)
                      \o Zeros(data_bytes),
        wellformed |-> TRUE, meta_end |-> Len(head), data_start |-> data_start]

\* Magic, version 3, no tensors, no metadata: 24 bytes.
MinimalFile == GgufFile(<< >>, << >>, 0)

\* The value of one uninterpreted key in each of the files of that kind:
\* every scalar type, a string, arrays of up to MaxArrayLen elements of
\* every element type, and an array of arrays.
ElementOf(et) == IF et = GGUF_TYPE_STRING THEN StringValue(<< 120 >>) ELSE ScalarValue(et)

ValueKinds ==
    { ScalarValue(t) : t \in (0..7) \cup (10..12) }
      \cup { StringValue(<< 120, 121 >>) }
      \cup { ArrayValue(et, [i \in 1..n |-> ElementOf(et)]) :
                et \in (0..8) \cup (10..12), n \in 0..MaxArrayLen }
      \cup { ArrayValue(GGUF_TYPE_ARRAY, << ArrayValue(4, << ScalarValue(4) >>) >>) }

SkipFiles ==
    { GgufFile(<< [key |-> UNKNOWN_KEY, value |-> v] >>, << PlainTensor >>, 32) :
        v \in ValueKinds }

\* Files whose keys the parser interprets, and one whose metadata is the
\* last thing in the file.
KeyedFiles ==
    { GgufFile(<< [key |-> KEY_GENERAL_ARCH, value |-> StringValue(ARCH_LLAMA)],
                  [key |-> KEY_BLOCK_COUNT, value |-> ScalarValue(4)] >>,
               << PlainTensor >>, 32),
      GgufFile(<< [key |-> UNKNOWN_KEY, value |-> ScalarValue(4)] >>, << >>, 0) }

\* Every prefix of one well-formed file.
PrefixedFile ==
    GgufFile(<< [key |-> UNKNOWN_KEY, value |-> StringValue(<< 120, 121 >>)] >>,
             << PlainTensor >>, 32)

Malformed(bytes) ==
    [bytes |-> bytes, wellformed |-> FALSE, meta_end |-> 0, data_start |-> 0]

PrefixFiles ==
    { Malformed(SubSeq(PrefixedFile.bytes, 1, n)) :
        n \in 0..(Len(PrefixedFile.bytes) - 1) }

\* One field wrong: a tensor of 128 bytes at offset 2^64 - 80, five
\* dimensions, a tensor of 16 elements in a data region of 32 bytes.
FiveDimsFile ==
    Malformed(GgufFile(<< >>, << [PlainTensor EXCEPT !.dims = << 1, 1, 1, 1, 1 >>] >>,
                       32).bytes)

CraftedFiles ==
    { Malformed(GgufFile(<< >>, << [PlainTensor EXCEPT !.offset = -80, !.dims = << 32 >>] >>,
                         128).bytes),
      FiveDimsFile,
      Malformed(GgufFile(<< >>, << [PlainTensor EXCEPT !.dims = << 16 >>] >>, 32).bytes) }

ParserFiles ==
    { MinimalFile } \cup SkipFiles \cup KeyedFiles \cup PrefixFiles \cup CraftedFiles

\* Sizes of the tensor memory gguf_load_tensor_data is given.
TensorMemorySizes == { 0, 32, 128 }

NoHeader == [ret |-> 0, version |-> 0, tensor_count |-> 0, metadata_kv_count |-> 0]
NoParse  == [ub |-> "none", ret |-> 0, m |-> NoMetadata]
NoTensorInfo == [ub |-> "none", ret |-> 0, tensors |-> << >>, data_offset |-> 0]
NoTensorData == [ran |-> FALSE, ub |-> "none", ret |-> 0, total_size |-> 0,
                 memory_size |-> 0]

\* The parsers have not been run.
ParserStart(f) ==
    [pc |-> "header", file |-> f, header |-> NoHeader, metadata |-> NoParse,
     tensor_info |-> NoTensorInfo, tensor_data |-> NoTensorData]

ParserIdle == [ParserStart(MinimalFile) EXCEPT !.pc = "idle"]

(***************************************************************************)
(* The tensor library called directly (ggml_kernel.c).  A tensor is named  *)
(* by its index in the table of tensors created; 0 is the NULL pointer.    *)
(***************************************************************************)

NULL_TENSOR == 0

\* ne[] as the descriptor holds it: the dimensions given, then 1.
PadNe(n_dims, ne) == [i \in 1..GGML_MAX_DIMS |-> IF i <= n_dims THEN ne[i] ELSE 1]

\* ne_total of ggml_new_tensor_impl: the product of the first n_dims entries.
NeTotal(n_dims, ne) ==
    LET e == PadNe(n_dims, ne) IN e[1] * e[2] * e[3] * e[4]

\* data_size of ggml_new_tensor_impl
DataSize(type, n_dims, ne) == NeTotal(n_dims, ne) * ggml_element_size(type)

\* ggml_new_tensor_impl with data == NULL, then the op and sources the
\* calling operation stores.  s is the context, tab the tensors so far.
NewTensorIn(s, tab, type, n_dims, ne, op, src0, src1) ==
    LET bytes == DataSize(type, n_dims, ne)
    IN IF s.n_objects >= GGML_MAX_NODES
       THEN [s |-> s, tab |-> tab, ret |-> NULL_TENSOR, why |-> "node_limit"]
       ELSE IF ~ggml_can_alloc(s, bytes)
       THEN [s |-> s, tab |-> tab, ret |-> NULL_TENSOR, why |-> "out_of_memory"]
       ELSE [s |-> ggml_new_tensor(s, bytes),
             tab |-> Append(tab, [type |-> type, n_dims |-> n_dims,
                                  ne |-> PadNe(n_dims, ne), op |-> op,
                                  src0 |-> src0, src1 |-> src1,
                                  has_data |-> TRUE]),
             ret |-> Len(tab) + 1, why |-> "ok"]

\* ggml_add and ggml_mul: NULL on a NULL operand, else a tensor of a's type
\* and shape with the operands stored; b's shape is not looked at.
ElementWise(s, tab, op, a, b) ==
    IF a = NULL_TENSOR \/ b = NULL_TENSOR
    THEN [s |-> s, tab |-> tab, ret |-> NULL_TENSOR, why |-> "null_operand"]
    ELSE NewTensorIn(s, tab, tab[a].type, tab[a].n_dims, tab[a].ne, op, a, b)

ggml_add(s, tab, a, b) == ElementWise(s, tab, "ADD", a, b)
ggml_mul(s, tab, a, b) == ElementWise(s, tab, "MUL", a, b)

InSeq(x, q) == \E i \in 1..Len(q) : q[i] = x

\* The walk that stores the tensor before it visits the sources.
RECURSIVE ggml_build_forward_impl_PreOrder(_, _, _)
ggml_build_forward_impl_PreOrder(tab, graph, t) ==
    IF t = NULL_TENSOR \/ InSeq(t, graph.nodes) THEN graph
    ELSE IF Len(graph.nodes) >= GGML_MAX_NODES THEN graph
    ELSE Bind(IF tab[t].op = "NONE"
              THEN [graph EXCEPT !.leafs = Append(@, t)]
              ELSE [graph EXCEPT !.nodes = Append(@, t)], LAMBDA g0 :
         Bind(ggml_build_forward_impl_PreOrder(tab, g0, tab[t].src0), LAMBDA g1 :
              ggml_build_forward_impl_PreOrder(tab, g1, tab[t].src1)))

\* ggml_build_forward_impl: a tensor already among the nodes is not visited
\* again, and none is visited once the nodes are full; otherwise the sources
\* first, then the tensor itself, a leaf to the leafs (while they have room)
\* and an operation to the nodes.
RECURSIVE ggml_build_forward_impl(_, _, _)
ggml_build_forward_impl(tab, graph, t) ==
    IF t = NULL_TENSOR \/ InSeq(t, graph.nodes) THEN graph
    ELSE IF Len(graph.nodes) >= GGML_MAX_NODES THEN graph
    ELSE Bind(ggml_build_forward_impl(tab, graph, tab[t].src0), LAMBDA g1 :
         Bind(ggml_build_forward_impl(tab, g1, tab[t].src1), LAMBDA g2 :
            IF tab[t].op = "NONE"
            THEN IF Len(g2.leafs) < GGML_MAX_NODES
                 THEN [g2 EXCEPT !.leafs = Append(@, t)]
                 ELSE g2
            ELSE [g2 EXCEPT !.nodes = Append(@, t)]))

\* ggml_build_forward: graph.n_nodes = 0, graph.n_leafs = 0, then the walk.
ggml_build_forward(tab, t) ==
    ggml_build_forward_impl(tab, [nodes |-> << >>, leafs |-> << >>], t)

\* ggml_graph_compute on the nodes gf[i..]: an operation node without data
\* gets its output reserved at the cursor; the walk returns at the first
\* reservation that does not fit.
RECURSIVE GraphComputeFrom(_, _, _)
GraphComputeFrom(s, gf, i) ==
    IF i > Len(gf) THEN [s |-> s, why |-> "ok"]
    ELSE LET node == gf[i]
             size == DataSize(node.type, node.n_dims, node.ne)
         IN IF node.op = "NONE" \/ node.has_data
            THEN GraphComputeFrom(s, gf, i + 1)
            ELSE IF s.mem_used + size > hp.mem_size
            THEN [s |-> s, why |-> "out_of_memory"]
            ELSE GraphComputeFrom(
                     [s EXCEPT !.mem_used = s.mem_used + ALIGN(size, GGML_TENSOR_ALIGN)],
                     gf, i + 1)

ggml_graph_compute(s, gf) == GraphComputeFrom(s, gf, 1)

\* What a direct caller passes as type and shape.
ArenaTypes  == { "F32", "I32" }
ArenaShapes == { [n_dims |-> 1, ne |-> << 1 >>], [n_dims |-> 1, ne |-> << 2 >>],
                 [n_dims |-> 2, ne |-> << 2, 3 >>] }

\* An operation node a caller laid out itself, its data pointer NULL.
CallerNode(type, shape) ==
    [type |-> type, n_dims |-> shape.n_dims, ne |-> PadNe(shape.n_dims, shape.ne),
     op |-> "ADD", src0 |-> NULL_TENSOR, src1 |-> NULL_TENSOR, has_data |-> FALSE]

\* Graphs handed to ggml_graph_compute besides the one ggml_build_forward made.
CallerGraphs ==
    { << CallerNode(ty, sh) >> : ty \in ArenaTypes, sh \in ArenaShapes }

\* Contexts ggml_init hands out: a fresh one over a slab of mem_size bytes,
\* and one that already holds GGML_MAX_NODES - 1 tensors without data.
FreshArena(mem_size) ==
    [mem_size |-> mem_size, mem_used |-> ALIGN(SIZEOF_CONTEXT, GGML_TENSOR_ALIGN),
     n_objects |-> 0]

NearlyFullArena ==
    LET used == ALIGN(SIZEOF_CONTEXT, GGML_TENSOR_ALIGN)
                  + (GGML_MAX_NODES - 1) * ALIGN(SIZEOF_TENSOR, GGML_TENSOR_ALIGN)
    IN [mem_size |-> used + ArenaRoom, mem_used |-> used,
        n_objects |-> GGML_MAX_NODES - 1]

ArenaStarts ==
    { FreshArena(ALIGN(SIZEOF_CONTEXT, GGML_TENSOR_ALIGN) + ArenaRoom + odd) :
          odd \in ArenaOddBytes } \cup { NearlyFullArena }

ArenaIdle == [tensors |-> << >>, nodes |-> << >>, leafs |-> << >>, ret |-> NULL_TENSOR,
              why |-> "idle", call |-> "none", computed |-> 0]

(***************************************************************************)
(* One forward pass, operation by operation (llama_model.c).  Every        *)
(* operation is the library call of the code, on the table of tensors;     *)
(* the weights are table entries made before the pass.                     *)
(***************************************************************************)

\* An operation of one operand: NULL on NULL, else a tensor of a's shape.
Unary(s, tab, op, a) ==
    IF a = NULL_TENSOR
    THEN [s |-> s, tab |-> tab, ret |-> NULL_TENSOR, why |-> "null_operand"]
    ELSE NewTensorIn(s, tab, tab[a].type, tab[a].n_dims, tab[a].ne, op, a, NULL_TENSOR)

ggml_rms_norm(s, tab, a) == Unary(s, tab, "RMS_NORM", a)
ggml_silu(s, tab, a)     == Unary(s, tab, "SILU", a)
ggml_scale(s, tab, a)    == Unary(s, tab, "SCALE", a)
ggml_rope(s, tab, a)     == Unary(s, tab, "ROPE", a)
ggml_soft_max(s, tab, a) == Unary(s, tab, "SOFT_MAX", a)

\* ggml_transpose: the first two dimensions swapped.
ggml_transpose(s, tab, a) ==
    IF a = NULL_TENSOR
    THEN [s |-> s, tab |-> tab, ret |-> NULL_TENSOR, why |-> "null_operand"]
    ELSE NewTensorIn(s, tab, tab[a].type, tab[a].n_dims,
                     << tab[a].ne[2], tab[a].ne[1], tab[a].ne[3], tab[a].ne[4] >>,
                     "TRANSPOSE", a, NULL_TENSOR)

\* ggml_mul_mat: a.ne[0] must equal b.ne[0]; the result is [b.ne[1], a.ne[1]].
ggml_mul_mat(s, tab, a, b) ==
    IF a = NULL_TENSOR \/ b = NULL_TENSOR
    THEN [s |-> s, tab |-> tab, ret |-> NULL_TENSOR, why |-> "null_operand"]
    ELSE IF tab[a].ne[1] # tab[b].ne[1]
    THEN [s |-> s, tab |-> tab, ret |-> NULL_TENSOR, why |-> "shape"]
    ELSE NewTensorIn(s, tab, "F32", 2,
                     << tab[b].ne[2], tab[a].ne[2], tab[a].ne[3], tab[a].ne[4] >>,
                     "MUL_MAT", a, b)

\* ggml_get_rows: b holds I32 row indices; the result is [a.ne[0], b.ne[0]].
ggml_get_rows(s, tab, a, b) ==
    IF a = NULL_TENSOR \/ b = NULL_TENSOR
    THEN [s |-> s, tab |-> tab, ret |-> NULL_TENSOR, why |-> "null_operand"]
    ELSE IF tab[b].type # "I32"
    THEN [s |-> s, tab |-> tab, ret |-> NULL_TENSOR, why |-> "shape"]
    ELSE NewTensorIn(s, tab, tab[a].type, tab[a].n_dims,
                     << tab[a].ne[1], tab[b].ne[1], tab[a].ne[3], tab[a].ne[4] >>,
                     "GET_ROWS", a, b)

\* A weight tensor as gguf_tensor_to_ggml registers it: a leaf whose
\* descriptor and data are outside the arena.
WeightTensor(n_dims, ne) ==
    [type |-> "F32", n_dims |-> n_dims, ne |-> PadNe(n_dims, ne), op |-> "NONE",
     src0 |-> NULL_TENSOR, src1 |-> NULL_TENSOR, has_data |-> TRUE]

\* The table after llama_model_create_from_gguf for a one-layer model, and
\* where each weight is in it (0: the file has no such tensor).
W_TOK_EMBD == 1
W_ATTN_NORM == 2
W_WQ == 3
W_WK == 4
W_WV == 5
W_WO == 6
W_FFN_NORM == 7
W_W1 == 8
W_W2 == 9
W_W3 == 10
W_NORM == 11
W_OUTPUT == 12

WeightTable ==
    LET d == hp.n_embd
        f == hp.n_ff
        V == hp.n_vocab
    IN << WeightTensor(2, << d, V >>),        \* token_embd.weight
          WeightTensor(1, << d >>),           \* blk.0.attn_norm.weight
          WeightTensor(2, << d, d >>),        \* blk.0.attn_q.weight
          WeightTensor(2, << d, d >>),        \* blk.0.attn_k.weight
          WeightTensor(2, << d, d >>),        \* blk.0.attn_v.weight
          WeightTensor(2, << d, d >>),        \* blk.0.attn_output.weight
          WeightTensor(1, << d >>),           \* blk.0.ffn_norm.weight
          WeightTensor(2, << d, f >>),        \* blk.0.ffn_gate.weight
          WeightTensor(2, << f, d >>),        \* blk.0.ffn_down.weight
          WeightTensor(2, << d, f >>),        \* blk.0.ffn_up.weight
          WeightTensor(1, << d >>),           \* output_norm.weight
          WeightTensor(2, << d, V >>) >>      \* output.weight

ModelNorm   == IF hp.has_norm THEN W_NORM ELSE NULL_TENSOR
ModelOutput == IF hp.has_output THEN W_OUTPUT ELSE NULL_TENSOR

\* The pass so far: c is the pass before the call, r what the call returned.
\* first_null remembers the object count at the first call that returned NULL.
Called(c, r) ==
    [s |-> r.s, tab |-> r.tab, ret |-> r.ret, ub |-> c.ub,
     first_null |-> IF c.first_null = 0 /\ r.ret = NULL_TENSOR
                    THEN r.s.n_objects + 1 ELSE c.first_null]

\* return NULL / return t / a read through a NULL pointer
Returns(c, t) == [c EXCEPT !.ret = t]
Dereferences(c) == [c EXCEPT !.ret = NULL_TENSOR, !.ub = "null_dereference"]

\* llama_attention
llama_attention(c0, input) ==
    IF W_WQ = NULL_TENSOR \/ W_WK = NULL_TENSOR \/ W_WV = NULL_TENSOR \/ W_WO = NULL_TENSOR
    THEN Returns(c0, input) ELSE
    Bind(Called(c0, ggml_mul_mat(c0.s, c0.tab, W_WQ, input)), LAMBDA q0 :
    IF q0.ret = NULL_TENSOR THEN q0 ELSE
    Bind(Called(q0, ggml_mul_mat(q0.s, q0.tab, W_WK, input)), LAMBDA k0 :
    IF k0.ret = NULL_TENSOR THEN k0 ELSE
    Bind(Called(k0, ggml_mul_mat(k0.s, k0.tab, W_WV, input)), LAMBDA v :
    IF v.ret = NULL_TENSOR THEN v ELSE
    Bind(Called(v, ggml_rope(v.s, v.tab, q0.ret)), LAMBDA q :
    IF q.ret = NULL_TENSOR THEN q ELSE
    Bind(Called(q, ggml_rope(q.s, q.tab, k0.ret)), LAMBDA k1 :
    IF k1.ret = NULL_TENSOR THEN k1 ELSE
    Bind([k1 EXCEPT !.s = CacheUpdate(@)], LAMBDA k :
    Bind(Called(k, ggml_transpose(k.s, k.tab, q.ret)), LAMBDA q_t :
    IF q_t.ret = NULL_TENSOR THEN q_t ELSE
    Bind(Called(q_t, ggml_transpose(q_t.s, q_t.tab, k.ret)), LAMBDA k_t :
    IF k_t.ret = NULL_TENSOR THEN k_t ELSE
    Bind(Called(k_t, ggml_mul_mat(k_t.s, k_t.tab, k_t.ret, q_t.ret)), LAMBDA sc0 :
    IF sc0.ret = NULL_TENSOR THEN sc0 ELSE
    Bind(Called(sc0, ggml_scale(sc0.s, sc0.tab, sc0.ret)), LAMBDA sc1 :
    IF sc1.ret = NULL_TENSOR THEN sc1 ELSE
    Bind(Called(sc1, ggml_soft_max(sc1.s, sc1.tab, sc1.ret)), LAMBDA sc2 :
    IF sc2.ret = NULL_TENSOR THEN sc2 ELSE
    Bind(Called(sc2, ggml_mul_mat(sc2.s, sc2.tab, v.ret, sc2.ret)), LAMBDA a0 :
    IF a0.ret = NULL_TENSOR THEN a0 ELSE
    Bind(Called(a0, ggml_transpose(a0.s, a0.tab, a0.ret)), LAMBDA a1 :
    IF a1.ret = NULL_TENSOR THEN a1 ELSE
    Called(a1, ggml_mul_mat(a1.s, a1.tab, W_WO, a1.ret)))))))))))))))

\* The FFN block of llama_layer_forward, entered with w1, w2 and w3 bound:
\* the first statement prints cur->ne[0] and cur->ne[1].
LayerFfn(c0, cur) ==
    IF cur = NULL_TENSOR THEN Dereferences(c0) ELSE
    Bind(Called(c0, ggml_mul_mat(c0.s, c0.tab, W_W1, cur)), LAMBDA gate0 :
    IF gate0.ret = NULL_TENSOR THEN gate0 ELSE
    Bind(Called(gate0, ggml_mul_mat(gate0.s, gate0.tab, W_W3, cur)), LAMBDA up :
    IF up.ret = NULL_TENSOR THEN up ELSE
    Bind(Called(up, ggml_silu(up.s, up.tab, gate0.ret)), LAMBDA gate :
    IF gate.ret = NULL_TENSOR THEN gate ELSE
    Bind(Called(gate, ggml_mul(gate.s, gate.tab, gate.ret, up.ret)), LAMBDA m :
    IF m.ret = NULL_TENSOR THEN m ELSE
    Bind(Called(m, ggml_transpose(m.s, m.tab, m.ret)), LAMBDA cur_t :
    IF cur_t.ret = NULL_TENSOR THEN cur_t ELSE
    Called(cur_t, ggml_mul_mat(cur_t.s, cur_t.tab, W_W2, cur_t.ret)))))))

\* llama_layer_forward from the FFN norm on: neither rms_norm nor the mul
\* by ffn_norm is tested before the FFN block uses the result.
LayerSecondHalf(ffn_input) ==
    Bind(Called(ffn_input, ggml_rms_norm(ffn_input.s, ffn_input.tab, ffn_input.ret)),
         LAMBDA f1 :
    Bind(IF W_FFN_NORM # NULL_TENSOR
         THEN Called(f1, ggml_mul(f1.s, f1.tab, f1.ret, W_FFN_NORM)) ELSE f1,
         LAMBDA f2 :
    IF W_W1 # NULL_TENSOR /\ W_W2 # NULL_TENSOR /\ W_W3 # NULL_TENSOR
    THEN Bind(LayerFfn(f2, f2.ret), LAMBDA f3 :
            IF f3.ub # "none" \/ f3.ret = NULL_TENSOR THEN f3
            ELSE Called(f3, ggml_add(f3.s, f3.tab, ffn_input.ret, f3.ret)))
    ELSE Called(f2, ggml_add(f2.s, f2.tab, ffn_input.ret, f2.ret))))

\* llama_layer_forward
llama_layer_forward(c0, input) ==
    Bind(Called(c0, ggml_rms_norm(c0.s, c0.tab, input)), LAMBDA n1 :
    IF n1.ret = NULL_TENSOR THEN n1 ELSE
    Bind(IF W_ATTN_NORM # NULL_TENSOR
         THEN Called(n1, ggml_mul(n1.s, n1.tab, n1.ret, W_ATTN_NORM)) ELSE n1,
         LAMBDA n2 :
    IF n2.ret = NULL_TENSOR THEN n2 ELSE
    Bind(llama_attention(n2, n2.ret), LAMBDA attn_out :
    IF attn_out.ret = NULL_TENSOR THEN attn_out ELSE
    Bind(Called(attn_out, ggml_add(attn_out.s, attn_out.tab, input, attn_out.ret)),
         LAMBDA ffn_input :
    IF ffn_input.ret = NULL_TENSOR THEN ffn_input ELSE
    LayerSecondHalf(ffn_input)))))

\* The layer loop of llama_eval.
RECURSIVE LayerLoop(_, _, _)
LayerLoop(c, cur, i) ==
    IF ~(i < hp.n_layer) THEN Returns(c, cur)
    ELSE Bind(llama_layer_forward(c, cur), LAMBDA r :
            IF r.ret = NULL_TENSOR \/ r.ub # "none" THEN r
            ELSE LayerLoop(r, r.ret, i + 1))

\* What llama_eval hands back when it returns -EINVAL after the calls of c.
EvalFails(c) ==
    [s |-> c.s, ret |-> -EINVAL, ub |-> c.ub, first_null |-> c.first_null,
     tab |-> c.tab, graph |-> [nodes |-> << >>, leafs |-> << >>]]

\* llama_eval after the layers: final norm, output projection, the graph,
\* the logits.  ggml_build_forward(NULL) is NULL; every node of the graph
\* has data, so ggml_graph_compute reserves nothing and runs the kernel of
\* every node of graph.
EvalTail(l, tokens, n_past) ==
    Bind(Called(l, ggml_rms_norm(l.s, l.tab, l.ret)), LAMBDA n1 :
    Bind(IF ModelNorm # NULL_TENSOR
         THEN Called(n1, ggml_mul(n1.s, n1.tab, n1.ret, ModelNorm)) ELSE n1,
         LAMBDA n2 :
    Bind(IF ModelOutput # NULL_TENSOR
         THEN Called(n2, ggml_mul_mat(n2.s, n2.tab, ModelOutput, n2.ret)) ELSE n2,
         LAMBDA n3 :
    IF n3.ret = NULL_TENSOR THEN EvalFails(n3)
    ELSE [s |-> [(IF n3.tab[n3.ret].ne[1] = hp.n_vocab
                  THEN LogitsTouched(n3.s, hp.n_vocab) ELSE n3.s) EXCEPT
                    !.logits   = IF n3.tab[n3.ret].ne[1] = hp.n_vocab
                                 THEN LogitsOfPass(tokens, n_past) ELSE @,
                    !.n_tokens = Len(tokens),
                    !.n_past   = n_past + Len(tokens)],
          ret |-> 0, ub |-> "none", first_null |-> n3.first_null,
          tab |-> n3.tab, graph |-> ggml_build_forward(n3.tab, n3.ret)])))

\* llama_eval with every call spelled out.  ret is the value returned; with
\* ub set the call did not return.
EvalOps(s, tokens, n_past) ==
    Bind([s |-> s, tab |-> WeightTable, ret |-> NULL_TENSOR, ub |-> "none",
          first_null |-> 0], LAMBDA c0 :
    IF Len(tokens) <= 0 THEN EvalFails(c0) ELSE
    Bind(Called(c0, NewTensorIn(c0.s, c0.tab, "I32", 1, << Len(tokens) >>, "NONE",
                                NULL_TENSOR, NULL_TENSOR)), LAMBDA embd :
    IF embd.ret = NULL_TENSOR THEN EvalFails(embd) ELSE
    Bind(Called(embd, ggml_get_rows(embd.s, embd.tab, W_TOK_EMBD, embd.ret)), LAMBDA rows :
    IF rows.ret = NULL_TENSOR THEN EvalFails(rows) ELSE
    Bind(LayerLoop(rows, rows.ret, 0), LAMBDA l :
    IF l.ub # "none" THEN [EvalFails(l) EXCEPT !.ret = 0]
    ELSE IF l.ret = NULL_TENSOR THEN EvalFails(l)
    ELSE EvalTail(l, tokens, n_past)))))

ForwardIdle == [pc |-> "idle", ret |-> 0, ub |-> "none", first_null |-> 0,
                tab |-> << >>, graph |-> [nodes |-> << >>, leafs |-> << >>],
                made |-> 0, tokens |-> << >>, agrees |-> TRUE]

(***************************************************************************)
(* The quantization codec (quantize.h, quantize.c).  A float is held as     *)
(* the sign, exponent and mantissa fields of its bit pattern; the lanes a   *)
(* dequantizer writes are held in units of 1/1024, which is exact for the   *)
(* blocks given here (FixedHalves).                                         *)
(***************************************************************************)
Max(a, b) == IF a > b THEN a ELSE b

RECURSIVE Pow2(_)
Pow2(n) == IF n = 0 THEN 1 ELSE 2 * Pow2(n - 1)

\* o.u = (sign << 31) | (e << 23) | m in 32 bits: e reaches the sign bit
\* from 256 on and is cut at 512.
F32Pack(sign, e, m) ==
    [sign |-> Max(sign, (e % 512) \div 256), exp |-> e % 256, mant |-> m]

\* The loop that forgets exp--.
RECURSIVE Renormalize_KeepsExp(_, _)
Renormalize_KeepsExp(exp, mant) ==
    IF (mant \div 1024) % 2 # 0 THEN [exp |-> exp, mant |-> mant]
    ELSE Renormalize_KeepsExp(exp, mant * 2)

\* while ((mant & 0x400) == 0) { mant <<= 1; exp--; }   exp is a uint32_t:
\* a value below 0 stands for that value + 2^32.
RECURSIVE Renormalize(_, _)
Renormalize(exp, mant) ==
    IF (mant \div 1024) % 2 # 0 THEN [exp |-> exp, mant |-> mant]
    ELSE Renormalize(exp - 1, mant * 2)

ggml_fp16_to_fp32(h) ==
    LET sign == (h \div 32768) % 2
        exp  == (h \div 1024) % 32
        mant == h % 1024
    IN IF exp = 0
       THEN IF mant = 0
            THEN F32Pack(sign, 0, 0)
            ELSE LET n == Renormalize(1, mant)
                 IN F32Pack(sign, n.exp + 112, (n.mant % 1024) * 8192)
       ELSE IF exp = 31
       THEN IF mant = 0
            THEN F32Pack(sign, 254, 0)          \* "use large value in kernel"
            ELSE F32Pack(0, 0, 0)               \* o.f = 0.0f
       ELSE F32Pack(sign, exp + 112, mant * 8192)

\* sig * 2^pow with sig odd, or 0.
RECURSIVE Canon(_, _)
Canon(sig, pow) ==
    IF sig = 0 THEN [sig |-> 0, pow |-> 0]
    ELSE IF sig % 2 = 0 THEN Canon(sig \div 2, pow + 1)
    ELSE [sig |-> sig, pow |-> pow]

\* The number a float's bit pattern denotes (exp < 255).
F32Value(f) ==
    LET c == IF f.exp = 0 THEN Canon(f.mant, -149)
             ELSE Canon(8388608 + f.mant, f.exp - 150)
    IN [neg |-> f.sign = 1, sig |-> c.sig, pow |-> c.pow]

\* The same number in units of 1/1024, for floats that are whole in them.
F32Fixed(f) ==
    LET v == F32Value(f)
    IN (IF v.neg THEN -1 ELSE 1) * v.sig * Pow2(v.pow + 10)

\* scales[j*2] = byte & 63; scales[j*2 + 1] = byte >> 6;   for j < 8
UnpackScale(scales, j) ==
    LET byte == scales[(j \div 2) + 1]
    IN IF j % 2 = 0 THEN byte % 64 ELSE byte \div 64

\* mins[j*4 + n] = (byte >> 2n) & 3 of scales[8 + j];   for j < 4
UnpackMin(scales, j) ==
    LET byte == scales[8 + (j \div 4) + 1]
    IN (byte \div Pow2(2 * (j % 4))) % 4

\* The 256 lanes of one block: out[l*2 + 0] = d * (vi0 - 8.0f) * sc + dmin * m
\* and out[l*2 + 1] the same of vi1, with m = mins[j] + 1.
DequantBlockQ4K(block) ==
    LET d    == F32Fixed(ggml_fp16_to_fp32(block.d))
        dmin == F32Fixed(ggml_fp16_to_fp32(block.dmin))
    IN [n \in 1..QK_K |->
          LET j  == (n - 1) \div 16
              t  == (n - 1) % 16
              vi == block.qs[j * 8 + (t \div 2) + 1]
              q  == IF t % 2 = 0 THEN vi % 16 ELSE vi \div 16
              sc == UnpackScale(block.scales, j)
              m  == UnpackMin(block.scales, j) + 1
          IN d * (q - 8) * sc + dmin * m]

\* dequantize_q4_K(x, y, k): nb = k / QK_K blocks, block i to y + i*QK_K.
RECURSIVE dequantize_q4_K(_, _)
dequantize_q4_K(x, k) ==
    IF k \div QK_K = 0 THEN << >>
    ELSE DequantBlockQ4K(Head(x)) \o dequantize_q4_K(Tail(x), k - QK_K)

\* dequantize_q6_K(x, y, k): y[i*QK_K + j] = 1.0f * (float)j / QK_K, whatever
\* x holds.
dequantize_q6_K(x, k) ==
    [n \in 1..((k \div QK_K) * QK_K) |-> (((n - 1) % QK_K) * 1024) \div QK_K]

\* dequantize_row(x, y, k, type).  y is what the call leaves in the k floats
\* of the output, stale is what they held before; the function is void, so
\* ret is what the caller is told: nothing.
dequantize_row(x, stale, k, type) ==
    IF type = GGML_TYPE_F32
    THEN [y |-> SubSeq(x.floats, 1, k), ret |-> "void", warned |-> FALSE]
    ELSE IF type = GGML_TYPE_Q4_K
    THEN LET y == dequantize_q4_K(x.blocks, k)
         IN [y |-> y \o SubSeq(stale, Len(y) + 1, k), ret |-> "void", warned |-> FALSE]
    ELSE IF type = GGML_TYPE_Q6_K
    THEN LET y == dequantize_q6_K(x.blocks, k)
         IN [y |-> y \o SubSeq(stale, Len(y) + 1, k), ret |-> "void", warned |-> FALSE]
    ELSE [y |-> [n \in 1..k |-> 0], ret |-> "void", warned |-> TRUE]

(***************************************************************************)
(* The matrix-multiplication dispatch of ggml_compute_forward and the       *)
(* kernels behind it (ggml_kernel.c), with the floating-point register      *)
(* events of each call in program order: "begin" is kernel_fpu_begin(),     *)
(* "end" is kernel_fpu_end(), "fp" is a stretch of float arithmetic.        *)
(***************************************************************************)
FpuRegion == << "begin", "fp", "end" >>

\* dequantize_q4_K, blocks i .. nb-1.  debug_count is reset to 0 on entry and
\* is 1 after block 0, so the first debug print runs for i < 3 and the second
\* for i = 0.
RECURSIVE FpuQ4K(_, _)
FpuQ4K(i, nb) ==
    IF i >= nb THEN << >>
    ELSE FpuRegion                                      \* d, dmin
         \o (IF i < 3 THEN FpuRegion ELSE << >>)        \* d_int, dmin_int
         \o FpuRegion                                   \* the 16 groups
         \o (IF i = 0 THEN FpuRegion ELSE << >>)        \* v0 .. v3
         \o FpuQ4K(i + 1, nb)

FpuDequantRow(k, type) ==
    IF type = GGML_TYPE_Q4_K THEN FpuQ4K(0, k \div QK_K)
    ELSE IF type = GGML_TYPE_Q6_K /\ k \div QK_K > 0 THEN << "fp" >>
    ELSE << >>

\* Row i of the loop of ggml_compute_forward_mul_mat_q4_0_f32.
FpuMulMatRow(i, ne00, type) ==
    (IF i > 0 /\ i % 32 = 0 THEN << "end", "begin" >> ELSE << >>)
    \o FpuDequantRow(ne00, type)
    \o << "fp" >>                                       \* the dot products

\* Rows lo .. hi-1 of the loop, one after the other.
RECURSIVE FpuMulMatRows(_, _, _, _)
FpuMulMatRows(lo, hi, ne00, type) ==
    IF lo >= hi THEN << >>
    ELSE IF hi = lo + 1 THEN FpuMulMatRow(lo, ne00, type)
    ELSE LET mid == (lo + hi) \div 2
         IN FpuMulMatRows(lo, mid, ne00, type) \o FpuMulMatRows(mid, hi, ne00, type)

\* ggml_vec_dot_f32 and the dot-product loop of the quantized kernel, on
\* lanes in units of 1/1024 and a column of whole numbers.
RECURSIVE DotRange(_, _, _, _)
DotRange(row, col, lo, hi) ==
    IF lo > hi THEN 0
    ELSE IF lo = hi THEN row[lo] * col[lo]
    ELSE LET mid == (lo + hi) \div 2
         IN DotRange(row, col, lo, mid) + DotRange(row, col, mid + 1, hi)

VecDot(row, col) == DotRange(row, col, 1, Len(row))

\* ggml_compute_forward_mul_mat_f32_f32: every c[i * ne11 + j], ne11 = 1.
mul_mat_f32_f32(src0, src1) ==
    [y |-> [i \in 1..src0.ne01 |-> VecDot(src0.row.floats, src1.col)],
     written |-> TRUE, warned |-> FALSE,
     fpu |-> << "begin", "fp", "end" >>]

\* ggml_compute_forward_mul_mat_q4_0_f32 with ne11 = 1.  row_buf comes from
\* kvmalloc: without it the kernel returns and dst keeps what it held.
mul_mat_q4_0_f32(src0, src1, stale, alloc_ok) ==
    IF ~alloc_ok
    THEN [y |-> stale, written |-> FALSE, warned |-> TRUE, fpu |-> << >>]
    ELSE LET row == dequantize_row(src0.row, [n \in 1..src0.ne00 |-> 0],
                                   src0.ne00, src0.type)
         IN [y |-> IF src0.ne01 = 0 THEN stale
                   ELSE [i \in 1..src0.ne01 |-> VecDot(row.y, src1.col)],
             written |-> src0.ne01 > 0, warned |-> row.warned,
             fpu |-> << "begin" >>
                     \o FpuMulMatRows(0, src0.ne01, src0.ne00, src0.type)
                     \o << "end" >>]

\* case GGML_OP_MUL_MAT of ggml_compute_forward; every tensor has data.
compute_forward_mul_mat(src0, src1, stale, alloc_ok) ==
    IF src0.type = GGML_TYPE_F32 /\ src1.type = GGML_TYPE_F32
    THEN mul_mat_f32_f32(src0, src1)
    ELSE IF src0.type \in { GGML_TYPE_Q4_0, GGML_TYPE_Q4_K }
            /\ src1.type = GGML_TYPE_F32
    THEN mul_mat_q4_0_f32(src0, src1, stale, alloc_ok)
    ELSE [y |-> stale, written |-> FALSE, warned |-> FALSE, fpu |-> << >>]

\* kernel_fpu_begin() / kernel_fpu_end() of the x86 kernel set and clear the
\* per-CPU in_kernel_fpu flag whatever it held; float arithmetic leaves it.
FpuAfter(held, event) ==
    IF event = "begin" THEN TRUE
    ELSE IF event = "end" THEN FALSE
    ELSE held

QuantIdle ==
    [call |-> "none", pc |-> "idle", h |-> 0, f |-> F32Pack(0, 0, 0),
     type |-> GGML_TYPE_F32, type1 |-> GGML_TYPE_F32, x |-> << >>,
     stale |-> << >>, y |-> << >>, ret |-> "void", warned |-> FALSE,
     written |-> FALSE, todo |-> << >>, held |-> FALSE, acquired |-> FALSE]

(***************************************************************************)
(* Initial states: the module after llama_init has returned 0.             *)
(***************************************************************************)

Producers == {"p1", "p2"}
Threads   == Producers \cup {"reader", "worker", "exit"}

\* What each producer writes to the endpoint.
UserPrompt(p) == IF p = "p1" THEN << "A", "A" >> ELSE << "B", NL >>

\* Prompts handed to llama_generate in DriverSpec: 2, 3 and 7 tokens.
DriverPrompts == { << >>, << "A" >>, << "A", SP, "A", SP, "A" >> }

\* Models a GGUF file can describe; every weight tensor comes from the file.
ModelConfigs ==
    { [n_vocab |-> 7, n_embd |-> 2, n_ff |-> 2, n_layer |-> 1,
       has_norm |-> TRUE, has_output |-> TRUE],
      [n_vocab |-> 7, n_embd |-> 7, n_ff |-> 2, n_layer |-> 1,
       has_norm |-> TRUE, has_output |-> FALSE],
      [n_vocab |-> 8, n_embd |-> 2, n_ff |-> 2, n_layer |-> 1,
       has_norm |-> FALSE, has_output |-> TRUE] }

\* Tensors llama_model_create_from_gguf registers: tok_embeddings, norm,
\* output and nine per layer; their descriptors and data live outside the arena.
WeightObjects(c) ==
    1 + (IF c.has_norm THEN 1 ELSE 0) + (IF c.has_output THEN 1 ELSE 0) + 9 * c.n_layer

\* Bytes of one KV tensor: n_embd * n_layer * test_ctx floats.
KvBytes(c) == F32_SIZE * c.n_embd * c.n_layer * TEST_CTX

\* The arena cursor once ggml_init and llama_state_create have run.
ArenaAfterLoad(c) ==
    ALIGN(ALIGN(ALIGN(SIZEOF_CONTEXT, GGML_TENSOR_ALIGN)
                + ALIGN(SIZEOF_TENSOR, GGML_TENSOR_ALIGN) + KvBytes(c), GGML_TENSOR_ALIGN)
          + ALIGN(SIZEOF_TENSOR, GGML_TENSOR_ALIGN) + KvBytes(c), GGML_TENSOR_ALIGN)

\* llama_state_create: counters zero, logits zero-filled, KV tensors carved.
llama_state_create(c) ==
    [n_past |-> 0, n_tokens |-> 0, cache_n |-> 0, cache_cells |-> {},
     logits |-> ZeroLogits, logits_cap |-> TEST_VOCAB, logits_used |-> 0,
     mem_used |-> ArenaAfterLoad(c), n_objects |-> WeightObjects(c) + 2]

HpOf(c) ==
    [n_vocab |-> c.n_vocab, n_embd |-> c.n_embd, n_ff |-> c.n_ff,
     n_layer |-> c.n_layer, has_norm |-> c.has_norm, has_output |-> c.has_output,
     mem_size |-> ArenaAfterLoad(c) + ArenaHeadroom]

NoEval == [ran |-> FALSE, tokens |-> << >>, n_past |-> 0, ret |-> 0,
           state_n_past |-> 0]

IdleGen == [phase |-> "idle", prompt |-> << >>, generated |-> << >>, i |-> 0,
            n_generated |-> 0, count |-> 0, evals |-> 0]

NoRead == [kind |-> "none", text |-> << >>, writing |-> FALSE,
           resp_for |-> << "none" >>, last_accepted |-> << "none" >>]

MailboxInit ==
    /\ request_pending = 0
    /\ lock = "free"
    /\ should_stop = FALSE
    /\ initialized = TRUE
    /\ bufs = "live"
    /\ prompt_buffer = [i \in 1..(MaxPromptLen + 1) |-> NUL]
    /\ current_prompt = << >>
    /\ current_response = << >>
    /\ resp_writing = FALSE
    /\ pc = [t \in Threads |->
                IF t = "worker" THEN "w_wait" ELSE "idle"]
    /\ nsub = [p \in Producers |-> 0]
    /\ pcopied = [p \in Producers |-> 0]
    /\ nread = 0
    /\ wret = 0
    /\ wout = << >>
    /\ h_accepts = 0
    /\ h_last_accepted = << "none" >>
    /\ h_claimed = << "none" >>
    /\ h_resp_for = << "none" >>
    /\ h_result = [p \in Producers |-> "none"]
    /\ h_read = NoRead

\* A model file as llama_load_model meets it: whether it can be read, what
\* each parser step makes of it, whether gguf_load_tensor_data can copy its
\* tensor data, and which named tensors its directory holds.
ModelFiles ==
    [readable : BOOLEAN, header : BOOLEAN, metadata : BOOLEAN, tinfo : BOOLEAN,
     valid : BOOLEAN, data : BOOLEAN, tok_embd : BOOLEAN, layer_w : BOOLEAN]

\* Every step succeeds on the file and every named tensor is in it.
FileLoadsCleanly(f) ==
    /\ f.readable /\ f.header /\ f.metadata /\ f.tinfo /\ f.valid
    /\ f.data /\ f.tok_embd /\ f.layer_w

\* llama_init is entered: nothing allocated, the prompt endpoint not served.
LoadStart(f) ==
    [pc |-> "memory", file |-> f, ret |-> 0, data_loaded |-> FALSE,
     bound_all |-> FALSE, served |-> FALSE]

\* llama_init has returned 0 on a file that loads cleanly.
LoadDone ==
    [pc |-> "ready",
     file |-> [readable |-> TRUE, header |-> TRUE, metadata |-> TRUE,
               tinfo |-> TRUE, valid |-> TRUE, data |-> TRUE,
               tok_embd |-> TRUE, layer_w |-> TRUE],
     ret |-> 0, data_loaded |-> TRUE, bound_all |-> TRUE, served |-> FALSE]

AuxInit ==
    /\ ld = LoadDone
    /\ pf = ParserIdle
    /\ ar = ArenaIdle
    /\ fw = ForwardIdle
    /\ qz = QuantIdle

DriverStateInit ==
    /\ gen = IdleGen
    /\ h_outputs = [q \in DriverPrompts |-> {}]
    /\ h_eval = NoEval

Init ==
    /\ MailboxInit
    /\ DriverStateInit
    /\ AuxInit
    /\ \E c \in ModelConfigs :
          /\ c.has_norm /\ c.has_output
          /\ hp = HpOf(c)
          /\ inf = llama_state_create(c)

DriverInit ==
    /\ MailboxInit
    /\ DriverStateInit
    /\ AuxInit
    /\ \E c \in ModelConfigs :
          /\ hp = HpOf(c)
          /\ inf = llama_state_create(c)

(***************************************************************************)
(* DriverSpec: llama_generate one eval at a time, and direct llama_eval.   *)
(***************************************************************************)

\* Vocabulary sizes around the capacity of the logits buffer, and the size
\* a file without one gets.  Without output.weight the last tensor of the
\* pass is [n_embd, T], so the logits are copied when n_embd = n_vocab.
VocabConfigs ==
    { [n_vocab |-> v, n_embd |-> IF o THEN 2 ELSE v, n_ff |-> 2, n_layer |-> 1,
       has_norm |-> TRUE, has_output |-> o] :
         v \in { TEST_VOCAB - 1, TEST_VOCAB, TEST_VOCAB + 1, LLAMA_N_VOCAB },
         o \in BOOLEAN }

VocabInit ==
    /\ MailboxInit
    /\ DriverStateInit
    /\ AuxInit
    /\ \E c \in VocabConfigs :
          /\ hp = [HpOf(c) EXCEPT !.mem_size = @ + VocabHeadroom]
          /\ inf = llama_state_create(c)

\* What h_eval remembers of an eval: its arguments, its result, and n_past
\* of the state it was called on.
EvalRecord(ev, s_before) ==
    [ran |-> ev.ran, tokens |-> ev.tokens, n_past |-> ev.n_past, ret |-> ev.ret,
     state_n_past |-> s_before.n_past]

RecordOutcome(prompt, g) ==
    [h_outputs EXCEPT ![prompt] = @ \cup {GenerateResult(g, WORKER_MAX_LENGTH)}]

\* llama_generate is entered: reset, tokenize, prompt eval.
G_Start(prompt) ==
    /\ gen.phase = "idle"
    /\ gen.count < MaxGenerations
    /\ \E r \in { GenerateStart(inf, prompt, WORKER_MAX_TOKENS) } :
          /\ inf' = r.s
          /\ h_eval' = EvalRecord(r.ev, llama_state_reset(inf))
          /\ gen' = [phase |-> r.g.phase, prompt |-> prompt,
                     generated |-> r.g.generated, i |-> r.g.i,
                     n_generated |-> r.g.n_generated,
                     count |-> gen.count + 1, evals |-> gen.evals]
    /\ UNCHANGED << hp, h_outputs >>
    /\ UNCHANGED << mailboxVars, auxVars >>

\* One iteration of the token loop.
G_Step ==
    /\ gen.phase = "loop"
    /\ \E r \in { GenerateStep(inf, gen, WORKER_MAX_TOKENS) } :
          /\ inf' = r.s
          /\ h_eval' = IF r.ev.ran THEN EvalRecord(r.ev, ArenaRewind(inf)) ELSE h_eval
          /\ gen' = r.g
    /\ UNCHANGED << hp, h_outputs >>
    /\ UNCHANGED << mailboxVars, auxVars >>

\* The call returns: detokenize, or -1 when the prompt eval failed.
G_Finish ==
    /\ gen.phase \in {"detok", "failed"}
    /\ h_outputs' = RecordOutcome(gen.prompt, gen)
    /\ gen' = [gen EXCEPT !.phase = "idle"]
    /\ UNCHANGED << hp, inf, h_eval >>
    /\ UNCHANGED << mailboxVars, auxVars >>

\* Positions a direct caller passes as n_past.
DirectPositions == {0, TEST_CTX - 1, TEST_CTX}

\* A direct call of llama_eval (llama_model.h) between generations.
E_Call(tokens, n_past) ==
    /\ gen.phase = "idle"
    /\ gen.evals < MaxDirectEvals
    /\ \E e \in { llama_eval(inf, tokens, n_past) } :
          /\ inf' = e.s
          /\ h_eval' = EvalRecord([ran |-> ~e.oops, tokens |-> tokens,
                                   n_past |-> n_past, ret |-> e.ret], inf)
          /\ gen' = [gen EXCEPT !.evals = gen.evals + 1,
                                !.phase = IF e.oops THEN "oops" ELSE @]
    /\ UNCHANGED << hp, h_outputs >>
    /\ UNCHANGED << mailboxVars, auxVars >>

DriverNext ==
    \/ \E q \in DriverPrompts : G_Start(q)
    \/ G_Step
    \/ G_Finish
    \/ \E t \in {<< UNK_TOKEN >>, << BOS_TOKEN, TOKEN_A >>}, n \in DirectPositions :
          E_Call(t, n)

DriverSpec == DriverInit /\ [][DriverNext]_vars

\* The driver on models whose vocabulary is as large as the files give it.
VocabSpec == VocabInit /\ [][DriverNext]_vars

(***************************************************************************)
(* Spec: the request handoff.  Each handler is cut where it touches state  *)
(* another thread can touch: the pending flag, the mutex, prompt_buffer,   *)
(* the prompt and response buffers.                                        *)
(***************************************************************************)

\* len = min(count, sizeof(prompt_buffer) - 1)
PromptLen(p) == Min(Len(UserPrompt(p)), PROMPT_BUFFER_SIZE - 1)

\* What producer p submitted, trailing newline removed.
Submitted(p) ==
    LET u == SubSeq(UserPrompt(p), 1, PromptLen(p))
    IN IF Len(u) > 0 /\ u[Len(u)] = NL THEN SubSeq(u, 1, Len(u) - 1) ELSE u

\* strncpy(dst, src, n) followed by dst[n] = '\0'
strncpy(src, n) == LET c == CStr(src) IN SubSeq(c, 1, Min(Len(c), n))

\* snprintf of the worker's failure message
ErrorText(n_generated) == << "Error: Failed to generate response", n_generated >>

\* What the worker leaves in current_response after llama_generate returned
\* res: the detokenized text when n_generated > 0, else the failure message.
WorkerResponse(res) == IF res.ret > 0 THEN res.text ELSE ErrorText(res.ret)

\* The call whose frame is g failed: it returned -1 before the loop, or a
\* llama_eval inside the loop returned < 0 (the token was already stored in
\* generated_tokens, n_generated was not incremented).
GenerationFailed(g) ==
    \/ g.phase = "failed"
    \/ g.phase = "detok" /\ Len(g.generated) > g.n_generated

OthersUnchanged == UNCHANGED << hp, gen, h_outputs, h_eval, auxVars >>

\* llamux_prompt_write up to the flag test: -EBUSY when a request is pending.
P_Check(p) ==
    /\ pc[p] = "idle"
    /\ pc["exit"] # "removed"
    /\ nsub[p] < MaxSubmits
    /\ nsub' = [nsub EXCEPT ![p] = @ + 1]
    /\ IF request_pending # 0
       THEN /\ h_result' = [h_result EXCEPT ![p] = "busy"]
            /\ UNCHANGED << pc, pcopied >>
       ELSE /\ h_result' = [h_result EXCEPT ![p] = "none"]
            /\ pc' = [pc EXCEPT ![p] = "p_copy"]
            /\ pcopied' = [pcopied EXCEPT ![p] = 0]
    /\ UNCHANGED << request_pending, lock, should_stop, initialized, bufs,
                    prompt_buffer, current_prompt, current_response, resp_writing,
                    nread, wret, wout, inf, h_accepts, h_last_accepted,
                    h_claimed, h_resp_for, h_read >>
    /\ OthersUnchanged

\* copy_from_user, one byte of prompt_buffer at a time; it may fault first.
P_Copy(p) ==
    /\ pc[p] = "p_copy"
    /\ \E fault \in BOOLEAN :
          IF fault /\ pcopied[p] = 0
          THEN /\ h_result' = [h_result EXCEPT ![p] = "efault"]
               /\ pc' = [pc EXCEPT ![p] = "idle"]
               /\ UNCHANGED << prompt_buffer, pcopied >>
          ELSE /\ ~fault
               /\ IF pcopied[p] < PromptLen(p)
                  THEN /\ prompt_buffer' = [prompt_buffer EXCEPT
                                ![pcopied[p] + 1] = UserPrompt(p)[pcopied[p] + 1]]
                       /\ pcopied' = [pcopied EXCEPT ![p] = @ + 1]
                       /\ pc' = [pc EXCEPT ![p] =
                                IF pcopied[p] + 1 = PromptLen(p) THEN "p_term" ELSE "p_copy"]
                  ELSE /\ pc' = [pc EXCEPT ![p] = "p_term"]
                       /\ UNCHANGED << prompt_buffer, pcopied >>
               /\ UNCHANGED h_result
    /\ UNCHANGED << request_pending, lock, should_stop, initialized, bufs,
                    current_prompt, current_response, resp_writing, nsub,
                    nread, wret, wout, inf, h_accepts, h_last_accepted,
                    h_claimed, h_resp_for, h_read >>
    /\ OthersUnchanged

\* prompt_buffer[len] = '\0'
P_Term(p) ==
    /\ pc[p] = "p_term"
    /\ prompt_buffer' = [prompt_buffer EXCEPT ![PromptLen(p) + 1] = NUL]
    /\ pc' = [pc EXCEPT ![p] = "p_strip"]
    /\ UNCHANGED << request_pending, lock, should_stop, initialized, bufs,
                    current_prompt, current_response, resp_writing, nsub, pcopied,
                    nread, wret, wout, inf, h_accepts, h_last_accepted,
                    h_claimed, h_resp_for, h_result, h_read >>
    /\ OthersUnchanged

\* the trailing newline, if the buffer holds one at len - 1, becomes NUL
P_Strip(p) ==
    /\ pc[p] = "p_strip"
    /\ prompt_buffer' =
          IF PromptLen(p) > 0 /\ prompt_buffer[PromptLen(p)] = NL
          THEN [prompt_buffer EXCEPT ![PromptLen(p)] = NUL]
          ELSE prompt_buffer
    /\ pc' = [pc EXCEPT ![p] = "p_lock"]
    /\ UNCHANGED << request_pending, lock, should_stop, initialized, bufs,
                    current_prompt, current_response, resp_writing, nsub, pcopied,
                    nread, wret, wout, inf, h_accepts, h_last_accepted,
                    h_claimed, h_resp_for, h_result, h_read >>
    /\ OthersUnchanged

\* mutex_lock(&llama_state.lock): the caller sleeps until the mutex is free
P_Lock(p) ==
    /\ pc[p] = "p_lock"
    /\ lock = "free"
    /\ lock' = p
    /\ pc' = [pc EXCEPT ![p] = "p_store"]
    /\ UNCHANGED << request_pending, should_stop, initialized, bufs, prompt_buffer,
                    current_prompt, current_response, resp_writing, nsub, pcopied,
                    nread, wret, wout, inf, h_accepts, h_last_accepted,
                    h_claimed, h_resp_for, h_result, h_read >>
    /\ OthersUnchanged

\* strncpy into current_prompt and the clearing of current_response; with the
\* buffers already freed by llama_exit the strncpy dereferences NULL.
P_Store(p) ==
    /\ pc[p] = "p_store"
    /\ IF bufs = "null"
       THEN /\ pc' = [pc EXCEPT ![p] = "oops"]
            /\ UNCHANGED << current_prompt, current_response >>
       ELSE /\ current_prompt' = strncpy(prompt_buffer, PROMPT_BUFFER_SIZE - 1)
            /\ current_response' = << >>
            /\ pc' = [pc EXCEPT ![p] = "p_set"]
    /\ UNCHANGED << request_pending, lock, should_stop, initialized, bufs,
                    prompt_buffer, resp_writing, nsub, pcopied,
                    nread, wret, wout, inf, h_accepts, h_last_accepted,
                    h_claimed, h_resp_for, h_result, h_read >>
    /\ OthersUnchanged

\* atomic_set(&request_pending, 1): from here the submit is Accepted
P_SetPending(p) ==
    /\ pc[p] = "p_set"
    /\ request_pending' = 1
    /\ h_accepts' = h_accepts + 1
    /\ h_last_accepted' = Submitted(p)
    /\ pc' = [pc EXCEPT ![p] = "p_unlock"]
    /\ UNCHANGED << lock, should_stop, initialized, bufs, prompt_buffer,
                    current_prompt, current_response, resp_writing, nsub, pcopied,
                    nread, wret, wout, inf, h_claimed, h_resp_for, h_result, h_read >>
    /\ OthersUnchanged

\* mutex_unlock, wake_up, return count
P_Unlock(p) ==
    /\ pc[p] = "p_unlock"
    /\ lock' = "free"
    /\ h_result' = [h_result EXCEPT ![p] = "accepted"]
    /\ pc' = [pc EXCEPT ![p] = "idle"]
    /\ UNCHANGED << request_pending, should_stop, initialized, bufs, prompt_buffer,
                    current_prompt, current_response, resp_writing, nsub, pcopied,
                    nread, wret, wout, inf, h_accepts, h_last_accepted,
                    h_claimed, h_resp_for, h_read >>
    /\ OthersUnchanged

\* The worker's wait with a condition that tests the stop flag only.
W_Wait_IgnoresPending ==
    /\ pc["worker"] = "w_wait"
    /\ should_stop
    /\ pc' = [pc EXCEPT !["worker"] = "stopped"]
    /\ UNCHANGED << request_pending, lock, should_stop, initialized, bufs,
                    prompt_buffer, current_prompt, current_response, resp_writing,
                    nsub, pcopied, nread, wret, wout, inf, h_accepts,
                    h_last_accepted, h_claimed, h_resp_for, h_result, h_read >>
    /\ OthersUnchanged

\* llama_inference_thread from the loop test to the flag test: it sleeps
\* until a request is pending or a stop is asked for, and leaves the loop
\* on a stop without looking at the pending request.
W_Wait ==
    /\ pc["worker"] = "w_wait"
    /\ request_pending # 0 \/ should_stop
    /\ pc' = [pc EXCEPT !["worker"] = IF should_stop THEN "stopped" ELSE "w_lock"]
    /\ UNCHANGED << request_pending, lock, should_stop, initialized, bufs,
                    prompt_buffer, current_prompt, current_response, resp_writing,
                    nsub, pcopied, nread, wret, wout, inf, h_accepts,
                    h_last_accepted, h_claimed, h_resp_for, h_result, h_read >>
    /\ OthersUnchanged

W_Lock ==
    /\ pc["worker"] = "w_lock"
    /\ lock = "free"
    /\ lock' = "worker"
    /\ pc' = [pc EXCEPT !["worker"] = "w_gen"]
    /\ UNCHANGED << request_pending, should_stop, initialized, bufs,
                    prompt_buffer, current_prompt, current_response, resp_writing,
                    nsub, pcopied, nread, wret, wout, inf, h_accepts,
                    h_last_accepted, h_claimed, h_resp_for, h_result, h_read >>
    /\ OthersUnchanged

\* llama_generate on current_prompt, up to the point where it starts to
\* write the output buffer.  When llama_eval reads through a NULL pointer
\* the thread ends there ("w_oops"), the mutex held and the flag set.
W_Gen ==
    /\ pc["worker"] = "w_gen"
    /\ \E r \in { llama_generate(inf, current_prompt, WORKER_MAX_LENGTH,
                                   WORKER_MAX_TOKENS) } :
          /\ inf' = r.s
          /\ wret' = IF r.res.oops THEN wret ELSE r.res.ret
          /\ wout' = IF r.res.oops THEN wout ELSE WorkerResponse(r.res)
          /\ pc' = [pc EXCEPT !["worker"] = IF r.res.oops THEN "w_oops" ELSE "w_write"]
    /\ h_claimed' = current_prompt
    /\ UNCHANGED << request_pending, lock, should_stop, initialized, bufs,
                    prompt_buffer, current_prompt, current_response, resp_writing,
                    nsub, pcopied, nread, h_accepts,
                    h_last_accepted, h_resp_for, h_result, h_read >>
    /\ OthersUnchanged

\* The response buffer while llama_detokenize (or snprintf) is filling it:
\* all but the last piece is there.
W_WriteBegin ==
    /\ pc["worker"] = "w_write"
    /\ resp_writing' = TRUE
    /\ current_response' = SubSeq(wout, 1, Len(wout) - 1)
    /\ pc' = [pc EXCEPT !["worker"] = "w_write_end"]
    /\ UNCHANGED << request_pending, lock, should_stop, initialized, bufs,
                    prompt_buffer, current_prompt,
                    nsub, pcopied, nread, wret, wout, inf, h_accepts,
                    h_last_accepted, h_claimed, h_resp_for, h_result, h_read >>
    /\ OthersUnchanged

W_WriteEnd ==
    /\ pc["worker"] = "w_write_end"
    /\ resp_writing' = FALSE
    /\ current_response' = wout
    /\ h_resp_for' = h_claimed
    /\ pc' = [pc EXCEPT !["worker"] = "w_clear"]
    /\ UNCHANGED << request_pending, lock, should_stop, initialized, bufs,
                    prompt_buffer, current_prompt,
                    nsub, pcopied, nread, wret, wout, inf, h_accepts,
                    h_last_accepted, h_claimed, h_result, h_read >>
    /\ OthersUnchanged

\* atomic_set(&request_pending, 0)
W_Clear ==
    /\ pc["worker"] = "w_clear"
    /\ request_pending' = 0
    /\ h_accepts' = 0
    /\ pc' = [pc EXCEPT !["worker"] = "w_unlock"]
    /\ UNCHANGED << lock, should_stop, initialized, bufs,
                    prompt_buffer, current_prompt, current_response, resp_writing,
                    nsub, pcopied, nread, wret, wout, inf,
                    h_last_accepted, h_claimed, h_resp_for, h_result, h_read >>
    /\ OthersUnchanged

W_Unlock ==
    /\ pc["worker"] = "w_unlock"
    /\ lock' = "free"
    /\ pc' = [pc EXCEPT !["worker"] = "w_wait"]
    /\ UNCHANGED << request_pending, should_stop, initialized, bufs,
                    prompt_buffer, current_prompt, current_response, resp_writing,
                    nsub, pcopied, nread, wret, wout, inf, h_accepts,
                    h_last_accepted, h_claimed, h_resp_for, h_result, h_read >>
    /\ OthersUnchanged

\* llamux_prompt_show is entered.
R_Start ==
    /\ pc["reader"] = "idle"
    /\ pc["exit"] # "removed"
    /\ nread < MaxReads
    /\ nread' = nread + 1
    /\ pc' = [pc EXCEPT !["reader"] = "r_check"]
    /\ UNCHANGED << request_pending, lock, should_stop, initialized, bufs,
                    prompt_buffer, current_prompt, current_response, resp_writing,
                    nsub, pcopied, wret, wout, inf, h_accepts,
                    h_last_accepted, h_claimed, h_resp_for, h_result, h_read >>
    /\ OthersUnchanged

\* The polling loop and the flag test after it: with the flag still set when
\* the 50 sleeps are over the read reports a timeout, otherwise it goes on
\* to the response buffer.
R_Check ==
    /\ pc["reader"] = "r_check"
    /\ IF request_pending # 0
       THEN /\ h_read' = [NoRead EXCEPT !.kind = "timeout"]
            /\ pc' = [pc EXCEPT !["reader"] = "idle"]
       ELSE /\ pc' = [pc EXCEPT !["reader"] = "r_read"]
            /\ UNCHANGED h_read
    /\ UNCHANGED << request_pending, lock, should_stop, initialized, bufs,
                    prompt_buffer, current_prompt, current_response, resp_writing,
                    nsub, pcopied, nread, wret, wout, inf, h_accepts,
                    h_last_accepted, h_claimed, h_resp_for, h_result >>
    /\ OthersUnchanged

\* The response buffer is read, without the mutex.
R_Read ==
    /\ pc["reader"] = "r_read"
    /\ h_read' = IF bufs = "live" /\ Len(current_response) > 0
                 THEN [kind |-> "response", text |-> current_response,
                       writing |-> resp_writing, resp_for |-> h_resp_for,
                       last_accepted |-> h_last_accepted]
                 ELSE [NoRead EXCEPT !.kind = "ready"]
    /\ pc' = [pc EXCEPT !["reader"] = "idle"]
    /\ UNCHANGED << request_pending, lock, should_stop, initialized, bufs,
                    prompt_buffer, current_prompt, current_response, resp_writing,
                    nsub, pcopied, nread, wret, wout, inf, h_accepts,
                    h_last_accepted, h_claimed, h_resp_for, h_result >>
    /\ OthersUnchanged

\* llama_exit: initialized = false, then kthread_stop raises the stop flag
\* and wakes the thread.
X_Stop ==
    /\ pc["exit"] = "idle"
    /\ initialized' = FALSE
    /\ should_stop' = TRUE
    /\ pc' = [pc EXCEPT !["exit"] = "x_join"]
    /\ UNCHANGED << request_pending, lock, bufs,
                    prompt_buffer, current_prompt, current_response, resp_writing,
                    nsub, pcopied, nread, wret, wout, inf, h_accepts,
                    h_last_accepted, h_claimed, h_resp_for, h_result, h_read >>
    /\ OthersUnchanged

\* kthread_stop returns once the thread function has returned.
X_Join ==
    /\ pc["exit"] = "x_join"
    /\ pc["worker"] = "stopped"
    /\ pc' = [pc EXCEPT !["exit"] = "x_free"]
    /\ UNCHANGED << request_pending, lock, should_stop, initialized, bufs,
                    prompt_buffer, current_prompt, current_response, resp_writing,
                    nsub, pcopied, nread, wret, wout, inf, h_accepts,
                    h_last_accepted, h_claimed, h_resp_for, h_result, h_read >>
    /\ OthersUnchanged

\* The prompt and response buffers are freed and their pointers set to NULL.
X_Free ==
    /\ pc["exit"] = "x_free"
    /\ bufs' = "null"
    /\ pc' = [pc EXCEPT !["exit"] = "x_remove"]
    /\ UNCHANGED << request_pending, lock, should_stop, initialized,
                    prompt_buffer, current_prompt, current_response, resp_writing,
                    nsub, pcopied, nread, wret, wout, inf, h_accepts,
                    h_last_accepted, h_claimed, h_resp_for, h_result, h_read >>
    /\ OthersUnchanged

\* proc_remove: returns when no call of a handler is in flight; none starts after.
X_Remove ==
    /\ pc["exit"] = "x_remove"
    /\ \A t \in Producers \cup {"reader"} : pc[t] = "idle"
    /\ pc' = [pc EXCEPT !["exit"] = "removed"]
    /\ UNCHANGED << request_pending, lock, should_stop, initialized, bufs,
                    prompt_buffer, current_prompt, current_response, resp_writing,
                    nsub, pcopied, nread, wret, wout, inf, h_accepts,
                    h_last_accepted, h_claimed, h_resp_for, h_result, h_read >>
    /\ OthersUnchanged

Next ==
    \/ \E p \in Producers : P_Check(p)
    \/ \E p \in Producers : P_Copy(p)
    \/ \E p \in Producers : P_Term(p)
    \/ \E p \in Producers : P_Strip(p)
    \/ \E p \in Producers : P_Lock(p)
    \/ \E p \in Producers : P_Store(p)
    \/ \E p \in Producers : P_SetPending(p)
    \/ \E p \in Producers : P_Unlock(p)
    \/ W_Wait
    \/ W_Lock
    \/ W_Gen
    \/ W_WriteBegin
    \/ W_WriteEnd
    \/ W_Clear
    \/ W_Unlock
    \/ R_Start
    \/ R_Check
    \/ R_Read
    \/ X_Stop
    \/ X_Join
    \/ X_Free
    \/ X_Remove

Spec == Init /\ [][Next]_vars

(***************************************************************************)
(* FairSpec: Spec with the scheduling the kernel gives the threads.  The   *)
(* inference kthread and a process inside the write handler are runnable   *)
(* tasks and the scheduler runs them; new submits, reads and the unload    *)
(* are up to the users and get no fairness.                                *)
(***************************************************************************)

WorkerNext ==
    W_Wait \/ W_Lock \/ W_Gen \/ W_WriteBegin \/ W_WriteEnd \/ W_Clear \/ W_Unlock

ProducerNext(p) ==
    P_Copy(p) \/ P_Term(p) \/ P_Strip(p) \/ P_Lock(p) \/ P_Store(p)
        \/ P_SetPending(p) \/ P_Unlock(p)

FairSpec ==
    /\ Init
    /\ [][Next]_vars
    /\ WF_vars(WorkerNext)
    /\ \A p \in Producers : WF_vars(ProducerNext(p))

(***************************************************************************)
(* LoadSpec: llama_init, with llama_load_model one step at a time.  The    *)
(* model file is fixed in the initial state; allocations that can fail do  *)
(* so by nondeterministic choice.                                          *)
(***************************************************************************)

LoadInit ==
    /\ request_pending = 0
    /\ lock = "free"
    /\ should_stop = FALSE
    /\ initialized = FALSE
    /\ bufs = "null"
    /\ prompt_buffer = [i \in 1..(MaxPromptLen + 1) |-> NUL]
    /\ current_prompt = << >>
    /\ current_response = << >>
    /\ resp_writing = FALSE
    /\ pc = [t \in Threads |-> "idle"]
    /\ nsub = [p \in Producers |-> 0]
    /\ pcopied = [p \in Producers |-> 0]
    /\ nread = 0
    /\ wret = 0
    /\ wout = << >>
    /\ h_accepts = 0
    /\ h_last_accepted = << "none" >>
    /\ h_claimed = << "none" >>
    /\ h_resp_for = << "none" >>
    /\ h_result = [p \in Producers |-> "none"]
    /\ h_read = NoRead
    /\ DriverStateInit
    /\ \E c \in ModelConfigs :
          /\ c.has_norm /\ c.has_output
          /\ hp = HpOf(c)
          /\ inf = llama_state_create(c)
    /\ \E f \in ModelFiles : ld = LoadStart(f)
    /\ pf = ParserIdle
    /\ ar = ArenaIdle
    /\ fw = ForwardIdle
    /\ qz = QuantIdle

\* What a load step leaves alone besides ld.
LoadFrame ==
    UNCHANGED << request_pending, lock, should_stop, prompt_buffer,
                 current_prompt, current_response, resp_writing, nsub, pcopied,
                 nread, wret, wout, hp, inf, gen, h_accepts, h_last_accepted,
                 h_claimed, h_resp_for, h_result, h_read, h_outputs, h_eval, pf,
                 ar, fw, qz >>

\* A step jumps to an error label: llama_load_model returns ret and
\* llama_init hands it to the host.
LoadFails(ret) == ld' = [ld EXCEPT !.pc = "failed", !.ret = ret]

LoadGoes(next) == ld' = [ld EXCEPT !.pc = next]

\* vmalloc of the model memory.
L_Memory(ok) ==
    /\ ld.pc = "memory"
    /\ IF ok THEN LoadGoes("read") ELSE LoadFails(-ENOMEM)
    /\ UNCHANGED << initialized, bufs, pc >>
    /\ LoadFrame

\* filp_open, vmalloc of the file buffer, kernel_read in chunks, size test.
L_Read ==
    /\ ld.pc = "read"
    /\ IF ld.file.readable THEN LoadGoes("header") ELSE LoadFails(-EIO)
    /\ UNCHANGED << initialized, bufs, pc >>
    /\ LoadFrame

\* kzalloc of the gguf_model, then gguf_parse_header.
L_Header(ok) ==
    /\ ld.pc = "header"
    /\ IF ~ok THEN LoadFails(-ENOMEM)
       ELSE IF ld.file.header THEN LoadGoes("metadata") ELSE LoadFails(-EINVAL)
    /\ UNCHANGED << initialized, bufs, pc >>
    /\ LoadFrame

L_Metadata ==
    /\ ld.pc = "metadata"
    /\ IF ld.file.metadata THEN LoadGoes("tinfo") ELSE LoadFails(-EINVAL)
    /\ UNCHANGED << initialized, bufs, pc >>
    /\ LoadFrame

L_TensorInfo ==
    /\ ld.pc = "tinfo"
    /\ IF ld.file.tinfo THEN LoadGoes("validate") ELSE LoadFails(-EINVAL)
    /\ UNCHANGED << initialized, bufs, pc >>
    /\ LoadFrame

L_Validate ==
    /\ ld.pc = "validate"
    /\ IF ld.file.valid THEN LoadGoes("load_data") ELSE LoadFails(-EINVAL)
    /\ UNCHANGED << initialized, bufs, pc >>
    /\ LoadFrame

\* gguf_load_tensor_data: its failure is logged and the load goes on.
L_LoadData ==
    /\ ld.pc = "load_data"
    /\ ld' = [ld EXCEPT !.pc = "ggml_init", !.data_loaded = ld.file.data]
    /\ UNCHANGED << initialized, bufs, pc >>
    /\ LoadFrame

L_GgmlInit(ok) ==
    /\ ld.pc = "ggml_init"
    /\ IF ok THEN LoadGoes("create_model") ELSE LoadFails(-ENOMEM)
    /\ UNCHANGED << initialized, bufs, pc >>
    /\ LoadFrame

\* llama_model_create_from_gguf: NULL without token_embd.weight or memory;
\* any other named tensor that is missing becomes a placeholder or stays NULL.
L_CreateModel(ok) ==
    /\ ld.pc = "create_model"
    /\ IF ok /\ ld.file.tok_embd
       THEN ld' = [ld EXCEPT !.pc = "state_create", !.bound_all = ld.file.layer_w]
       ELSE LoadFails(-ENOMEM)
    /\ UNCHANGED << initialized, bufs, pc >>
    /\ LoadFrame

L_StateCreate(ok) ==
    /\ ld.pc = "state_create"
    /\ IF ok THEN LoadGoes("buffers") ELSE LoadFails(-ENOMEM)
    /\ UNCHANGED << initialized, bufs, pc >>
    /\ LoadFrame

\* llama_init: kzalloc of current_prompt and current_response.
L_Buffers(ok) ==
    /\ ld.pc = "buffers"
    /\ IF ok THEN LoadGoes("thread") /\ bufs' = "live"
             ELSE LoadFails(-ENOMEM) /\ bufs' = bufs
    /\ UNCHANGED << initialized, pc >>
    /\ LoadFrame

\* llama_init: kthread_create, wake_up_process, initialized = true.  When
\* the thread cannot be created the buffers are freed and init fails.
L_Thread(ok) ==
    /\ ld.pc = "thread"
    /\ IF ok
       THEN /\ LoadGoes("ready")
            /\ pc' = [pc EXCEPT !["worker"] = "w_wait"]
            /\ initialized' = TRUE
            /\ bufs' = bufs
       ELSE /\ LoadFails(-ENOMEM)
            /\ bufs' = "null"
            /\ UNCHANGED << initialized, pc >>
    /\ LoadFrame

\* The loaded module answers a prompt: the worker runs llama_generate on
\* the inference state the load built.
L_Serve ==
    /\ ld.pc = "ready"
    /\ initialized
    /\ ~ld.served
    /\ ld' = [ld EXCEPT !.served = TRUE]
    /\ UNCHANGED << initialized, bufs, pc >>
    /\ LoadFrame

LoadNext ==
    \/ \E ok \in BOOLEAN : L_Memory(ok)
    \/ L_Read
    \/ \E ok \in BOOLEAN : L_Header(ok)
    \/ L_Metadata
    \/ L_TensorInfo
    \/ L_Validate
    \/ L_LoadData
    \/ \E ok \in BOOLEAN : L_GgmlInit(ok)
    \/ \E ok \in BOOLEAN : L_CreateModel(ok)
    \/ \E ok \in BOOLEAN : L_StateCreate(ok)
    \/ \E ok \in BOOLEAN : L_Buffers(ok)
    \/ \E ok \in BOOLEAN : L_Thread(ok)
    \/ L_Serve

LoadSpec == LoadInit /\ [][LoadNext]_vars

(***************************************************************************)
(* ParserSpec: the GGUF parsers run on one file in the order               *)
(* llama_load_model calls them.  A step that reads outside the buffer, or  *)
(* writes outside dims[], ends in "undefined".                             *)
(***************************************************************************)

ParserInit ==
    /\ MailboxInit
    /\ DriverStateInit
    /\ \E c \in ModelConfigs :
          /\ c.has_norm /\ c.has_output
          /\ hp = HpOf(c)
          /\ inf = llama_state_create(c)
    /\ ld = LoadDone
    /\ ar = ArenaIdle
    /\ fw = ForwardIdle
    /\ qz = QuantIdle
    /\ \E f \in ParserFiles : pf = ParserStart(f)

ParserFrame == UNCHANGED << mailboxVars, hp, inf, driverVars, ld, ar, fw, qz >>

\* Where the pipeline goes after a step that returned r.
AfterStep(r, next) ==
    IF r.ub # "none" THEN "undefined" ELSE IF r.ret < 0 THEN "failed" ELSE next

PF_Header ==
    /\ pf.pc = "header"
    /\ \E h \in { gguf_parse_header(pf.file.bytes) } :
          pf' = [pf EXCEPT !.header = h,
                           !.pc = IF h.ret < 0 THEN "failed" ELSE "metadata"]
    /\ ParserFrame

PF_Metadata ==
    /\ pf.pc = "metadata"
    /\ \E r \in { gguf_parse_metadata(pf.file.bytes, pf.header.metadata_kv_count) } :
          pf' = [pf EXCEPT !.metadata = r, !.pc = AfterStep(r, "tensor_info")]
    /\ ParserFrame

PF_TensorInfo ==
    /\ pf.pc = "tensor_info"
    /\ \E r \in { gguf_parse_tensor_info(pf.file.bytes, pf.header) } :
          pf' = [pf EXCEPT !.tensor_info = r, !.pc = AfterStep(r, "tensor_data")]
    /\ ParserFrame

PF_LoadData(memory_size) ==
    /\ pf.pc = "tensor_data"
    /\ \E r \in { gguf_load_tensor_data(pf.file.bytes, pf.tensor_info.data_offset,
                                         pf.tensor_info.tensors, memory_size) } :
          pf' = [pf EXCEPT !.tensor_data = [ran |-> TRUE, ub |-> r.ub, ret |-> r.ret,
                                            total_size |-> r.total_size,
                                            memory_size |-> memory_size],
                           !.pc = AfterStep(r, "loaded")]
    /\ ParserFrame

ParserNext ==
    \/ PF_Header
    \/ PF_Metadata
    \/ PF_TensorInfo
    \/ \E n \in TensorMemorySizes : PF_LoadData(n)

ParserSpec == ParserInit /\ [][ParserNext]_vars

(***************************************************************************)
(* ArenaSpec: the tensor library called directly on one context: tensors   *)
(* created, added and multiplied, graphs built and computed.               *)
(***************************************************************************)

\* The hyper-parameters are not used by the library; one model stands for all.
ArenaConfig == CHOOSE c \in ModelConfigs : c.has_norm /\ c.has_output

ArenaInit ==
    /\ MailboxInit
    /\ DriverStateInit
    /\ ld = LoadDone
    /\ pf = ParserIdle
    /\ fw = ForwardIdle
    /\ qz = QuantIdle
    /\ ar = ArenaIdle
    /\ \E a \in ArenaStarts :
          /\ hp = [HpOf(ArenaConfig) EXCEPT !.mem_size = a.mem_size]
          /\ inf = [llama_state_create(ArenaConfig) EXCEPT
                       !.mem_used = a.mem_used, !.n_objects = a.n_objects]

ArenaFrame == UNCHANGED << mailboxVars, hp, driverVars, ld, pf, fw, qz >>

\* What a library call leaves behind: r is what it returned.
AfterCall(r, call) ==
    /\ inf' = r.s
    /\ ar' = [ar EXCEPT !.tensors = r.tab, !.ret = r.ret, !.why = r.why,
                        !.call = call]
    /\ ArenaFrame

\* ggml_new_tensor(ctx, type, n_dims, ne)
A_NewTensor(type, shape) ==
    /\ Len(ar.tensors) < MaxTensors
    /\ \E r \in { NewTensorIn(inf, ar.tensors, type, shape.n_dims, shape.ne,
                              "NONE", NULL_TENSOR, NULL_TENSOR) } :
          AfterCall(r, "new_tensor")

\* ggml_add(ctx, a, b)
A_Add(a, b) ==
    /\ Len(ar.tensors) < MaxTensors
    /\ a <= Len(ar.tensors) /\ b <= Len(ar.tensors)
    /\ \E r \in { ggml_add(inf, ar.tensors, a, b) } : AfterCall(r, "add")

\* ggml_mul(ctx, a, b)
A_Mul(a, b) ==
    /\ Len(ar.tensors) < MaxTensors
    /\ a <= Len(ar.tensors) /\ b <= Len(ar.tensors)
    /\ \E r \in { ggml_mul(inf, ar.tensors, a, b) } : AfterCall(r, "mul")

\* ggml_build_forward(tensor); NULL for a NULL tensor, the graph untouched.
A_BuildForward(t) ==
    /\ t <= Len(ar.tensors)
    /\ \E g \in { IF t = NULL_TENSOR THEN [nodes |-> ar.nodes, leafs |-> ar.leafs]
                   ELSE ggml_build_forward(ar.tensors, t) } :
          ar' = [ar EXCEPT !.nodes = g.nodes, !.leafs = g.leafs,
                           !.ret = t, !.why = "ok", !.call = "build_forward"]
    /\ UNCHANGED inf
    /\ ArenaFrame

\* The graph ggml_build_forward made, as ggml_graph_compute reads it.
BuiltGraph == [i \in 1..Len(ar.nodes) |-> ar.tensors[ar.nodes[i]]]

\* ggml_graph_compute(ctx, gf)
A_GraphCompute(gf) ==
    /\ \E r \in { ggml_graph_compute(inf, gf) } :
          /\ inf' = r.s
          /\ ar' = [ar EXCEPT !.ret = NULL_TENSOR, !.why = r.why,
                              !.call = "graph_compute", !.computed = Len(gf)]
    /\ ArenaFrame

ArenaNext ==
    \/ \E ty \in ArenaTypes, sh \in ArenaShapes : A_NewTensor(ty, sh)
    \/ \E a, b \in 0..MaxTensors : A_Add(a, b)
    \/ \E a, b \in 0..MaxTensors : A_Mul(a, b)
    \/ \E t \in 0..MaxTensors : A_BuildForward(t)
    \/ \E gf \in CallerGraphs : A_GraphCompute(gf)
    \/ A_GraphCompute(BuiltGraph)

ArenaSpec == ArenaInit /\ [][ArenaNext]_vars

(***************************************************************************)
(* RewindSpec: the driver on a model deep enough that one forward pass     *)
(* takes the object count past the threshold of the rewind.                *)
(***************************************************************************)

RewindConfigs ==
    { [n_vocab |-> 7, n_embd |-> 2, n_ff |-> 2, n_layer |-> RewindLayers,
       has_norm |-> TRUE, has_output |-> TRUE] }

RewindInit ==
    /\ MailboxInit
    /\ DriverStateInit
    /\ AuxInit
    /\ \E c \in RewindConfigs :
          /\ hp = [HpOf(c) EXCEPT !.mem_size = ArenaAfterLoad(c) + RewindHeadroom]
          /\ inf = llama_state_create(c)

RewindSpec == RewindInit /\ [][DriverNext]_vars

(***************************************************************************)
(* ForwardSpec: one llama_eval on a freshly loaded model, over slabs that   *)
(* leave room for none, some or all of the tensors of the pass.            *)
(***************************************************************************)

\* Arena bytes of a tensor with at most 32 bytes of data.
SmallTensorBytes ==
    ALIGN(ALIGN(SIZEOF_TENSOR, GGML_TENSOR_ALIGN) + F32_SIZE, GGML_TENSOR_ALIGN)

\* Slab bytes after the KV cache: none, the index tensor alone, the index
\* tensor and j more tensors.
ForwardRooms ==
    { 0 } \cup { ALIGN(SIZEOF_TENSOR, GGML_TENSOR_ALIGN) + j * SmallTensorBytes :
                    j \in 0..MaxForwardOps }

ForwardTokens == { << UNK_TOKEN >>, << BOS_TOKEN, TOKEN_A >> }

ForwardInit ==
    /\ MailboxInit
    /\ DriverStateInit
    /\ ld = LoadDone
    /\ pf = ParserIdle
    /\ ar = ArenaIdle
    /\ fw = [ForwardIdle EXCEPT !.pc = "ready"]
    /\ qz = QuantIdle
    /\ \E c \in ModelConfigs, room \in ForwardRooms :
          /\ hp = [HpOf(c) EXCEPT !.mem_size = ArenaAfterLoad(c) + room]
          /\ inf = llama_state_create(c)

\* llama_eval(state, tokens, n_tokens, state->n_past)
F_Eval(tokens) ==
    /\ fw.pc = "ready"
    /\ \E r \in { EvalOps(inf, tokens, inf.n_past) } :
          /\ inf' = r.s
          /\ fw' = [pc |-> IF r.ub # "none" THEN "oops" ELSE "returned",
                    ret |-> r.ret, ub |-> r.ub,
                    first_null |-> IF r.first_null = 0 THEN 0
                                   ELSE r.first_null - inf.n_objects,
                    made |-> r.s.n_objects - inf.n_objects,
                    tab |-> r.tab, graph |-> r.graph,
                    tokens |-> tokens,
                    agrees |-> LET e == llama_eval(inf, tokens, inf.n_past)
                               IN /\ e.oops = (r.ub # "none")
                                  /\ e.oops \/ (e.ret = r.ret /\ e.s = r.s)]
    /\ UNCHANGED << mailboxVars, hp, driverVars, ld, pf, ar, qz >>

ForwardNext == \E t \in ForwardTokens : F_Eval(t)

ForwardSpec == ForwardInit /\ [][ForwardNext]_vars

(***************************************************************************)
(* GraphSpec: graphs over tensors that share sources.  A caller creates     *)
(* leaves and element-wise operations in a slab with room for all of them   *)
(* and builds the graph of any tensor it holds.                             *)
(***************************************************************************)
GraphArena ==
    FreshArena(ALIGN(SIZEOF_CONTEXT, GGML_TENSOR_ALIGN)
                 + MaxGraphTensors * (ALIGN(SIZEOF_TENSOR, GGML_TENSOR_ALIGN)
                                        + GGML_TENSOR_ALIGN))

GraphInit ==
    /\ MailboxInit
    /\ DriverStateInit
    /\ AuxInit
    /\ hp = [HpOf(ArenaConfig) EXCEPT !.mem_size = GraphArena.mem_size]
    /\ inf = [llama_state_create(ArenaConfig) EXCEPT
                 !.mem_used = GraphArena.mem_used,
                 !.n_objects = GraphArena.n_objects]

\* ggml_new_tensor_1d(ctx, GGML_TYPE_F32, 2)
G_Leaf ==
    /\ Len(ar.tensors) < MaxGraphTensors
    /\ \E r \in { NewTensorIn(inf, ar.tensors, "F32", 1, << 2 >>,
                              "NONE", NULL_TENSOR, NULL_TENSOR) } :
          AfterCall(r, "new_tensor")

\* ggml_add(ctx, a, b) and ggml_mul(ctx, a, b) on tensors the caller holds
G_Op(op, a, b) ==
    /\ Len(ar.tensors) < MaxGraphTensors
    /\ a \in 1..Len(ar.tensors) /\ b \in 1..Len(ar.tensors)
    /\ \E r \in { ElementWise(inf, ar.tensors, op, a, b) } :
          AfterCall(r, IF op = "ADD" THEN "add" ELSE "mul")

\* ggml_build_forward(tensor) on a tensor the caller holds
G_Build(t) ==
    /\ t >= 1
    /\ A_BuildForward(t)

GraphNext ==
    \/ G_Leaf
    \/ \E a, b \in 1..MaxGraphTensors : G_Op("ADD", a, b)
    \/ \E a, b \in 1..MaxGraphTensors : G_Op("MUL", a, b)
    \/ \E t \in 1..MaxGraphTensors : G_Build(t)

GraphSpec == GraphInit /\ [][GraphNext]_vars

(***************************************************************************)
(* QuantSpec: the codec and the matrix-multiplication kernels called on     *)
(* rows of every tensor type, one floating-point register event at a time.  *)
(***************************************************************************)
QuantTypes ==
    { GGML_TYPE_F32, GGML_TYPE_F16, GGML_TYPE_Q4_0, GGML_TYPE_Q4_K,
      GGML_TYPE_Q5_K, GGML_TYPE_Q6_K, GGML_TYPE_Q8_K }

\* Halves that are whole in units of 1/1024: 0, 1, -1, 0.5, 2.
FixedHalves == { 0, 15360, 48128, 14336, 16384 }

\* The 12-byte table: all zero; 0x41 (scales 1, 1) with mins 0; sixes in the
\* scale bytes; sixes in every byte; mins 0, 1, 2, 3 with scales 0.
ScaleTables ==
    { [i \in 1..K_SCALE_SIZE |-> 0],
      [i \in 1..K_SCALE_SIZE |-> IF i <= 8 THEN 65 ELSE 0],
      [i \in 1..K_SCALE_SIZE |-> IF i <= 8 THEN 6 ELSE 0],
      [i \in 1..K_SCALE_SIZE |-> 6],
      [i \in 1..K_SCALE_SIZE |-> IF i <= 8 THEN 0 ELSE 228] }

QuantBytes == { 0, 255, 120 }

QuantBlocks ==
    { [d |-> d, dmin |-> dmin, scales |-> sc,
       qs |-> [i \in 1..(QK_K \div 2) |-> IF i = 1 THEN q0 ELSE q]] :
         d \in FixedHalves, dmin \in FixedHalves, sc \in ScaleTables,
         q \in QuantBytes, q0 \in QuantBytes }

BlockRow(b) == [floats |-> << >>, blocks |-> << b >>]
FloatRow(v) == [floats |-> [n \in 1..QK_K |-> v * 1024], blocks |-> << >>]

\* A row of QK_K elements of each type.
RowsOf(type, blocks) ==
    IF type = GGML_TYPE_F32 THEN { FloatRow(v) : v \in { 1, -2 } }
    ELSE { BlockRow(b) : b \in blocks }

\* What the output buffer held before the call.
StaleRows == { [n \in 1..QK_K |-> v] : v \in { 0, 7168 } }

\* Blocks of the weight rows of a matrix multiplication: d = 1, scales 1.
MatBlocks ==
    { b \in QuantBlocks : /\ b.d = 15360 /\ b.dmin \in { 0, 14336 }
                          /\ b.scales[1] = 65 /\ b.qs[1] = b.qs[2] }

MatRows == { 0, 1, 2, MaxMatRows }

QuantInit ==
    /\ MailboxInit
    /\ DriverStateInit
    /\ AuxInit
    /\ \E c \in ModelConfigs :
          /\ c.has_norm /\ c.has_output
          /\ hp = HpOf(c)
          /\ inf = llama_state_create(c)

QuantFrame == UNCHANGED << mailboxVars, hp, inf, driverVars, ld, pf, ar, fw >>

\* ggml_fp16_to_fp32(h)
Q_Fp16 ==
    /\ qz.pc = "idle"
    /\ \E h \in 0..65535 :
          qz' = [QuantIdle EXCEPT !.call = "fp16", !.pc = "done", !.h = h,
                                 !.f = ggml_fp16_to_fp32(h)]
    /\ QuantFrame

\* A call starts: r is what it leaves in the output, which does not depend on
\* the register events; the events are still to come.
StartCall(call, type, type1, x, stale, r, events) ==
    [QuantIdle EXCEPT !.call = call, !.type = type, !.type1 = type1, !.x = x,
                      !.stale = stale, !.todo = events,
                      !.pc = IF events = << >> THEN "done" ELSE "running",
                      !.y = r.y,
                      !.written = r.written, !.warned = r.warned]

\* dequantize_row(x, y, QK_K, type)
Q_DequantRow ==
    /\ qz.pc = "idle"
    /\ \E type \in QuantTypes :
       \E x \in RowsOf(type, QuantBlocks), stale \in StaleRows :
          \E r \in { dequantize_row(x, stale, QK_K, type) } :
             qz' = [StartCall("dequantize_row", type, GGML_TYPE_F32, x, stale,
                              [y |-> r.y, written |-> TRUE, warned |-> r.warned],
                              FpuDequantRow(QK_K, type))
                        EXCEPT !.ret = r.ret]
    /\ QuantFrame

\* ggml_compute_forward(tensor), tensor->op = GGML_OP_MUL_MAT, src0 a matrix of
\* ne01 equal rows, src1 one column of ones.
Q_MulMat ==
    /\ qz.pc = "idle"
    /\ \E type \in QuantTypes, type1 \in { GGML_TYPE_F32, GGML_TYPE_F16 } :
       \E x \in RowsOf(type, MatBlocks), ne01 \in MatRows, alloc_ok \in BOOLEAN,
          v \in { 0, 7168 } :
          LET src0  == [type |-> type, ne00 |-> QK_K, ne01 |-> ne01, row |-> x]
              src1  == [type |-> type1, col |-> [n \in 1..QK_K |-> 1]]
              stale == [i \in 1..ne01 |-> v]
          IN \E r \in { compute_forward_mul_mat(src0, src1, stale, alloc_ok) } :
                qz' = StartCall("mul_mat", type, type1, << x >>, stale, r, r.fpu)
    /\ QuantFrame

\* The next register event of the call in progress; after the last one the
\* call has returned.
Q_Step ==
    /\ qz.pc = "running"
    /\ LET rest == Tail(qz.todo)
       IN qz' = [qz EXCEPT
                    !.todo = rest,
                    !.held = FpuAfter(qz.held, Head(qz.todo)),
                    !.acquired = @ \/ Head(qz.todo) = "begin",
                    !.pc = IF rest = << >> THEN "done" ELSE "running"]
    /\ QuantFrame

QuantNext ==
    \/ Q_Fp16
    \/ Q_DequantRow
    \/ Q_MulMat
    \/ Q_Step

QuantSpec == QuantInit /\ [][QuantNext]_vars

(***************************************************************************)
(* Properties of the request handoff.                                      *)
(***************************************************************************)

\* C1: between two consecutive clearings of the pending flag at most one
\* submit is Accepted; of two submits racing on an idle mailbox one is
\* Accepted and the other Busy.
C1_AtMostOneAccepted == h_accepts <= 1

\* C2: the prompt the worker hands to generation is exactly the prompt of
\* the most recent Accepted submit with its trailing newline stripped: never
\* another submit's prompt and never a mixture of the bytes of two submits.
C2_WorkerPromptIsLastAccepted ==
    pc["worker"] \in {"w_write", "w_write_end", "w_clear", "w_unlock"}
        => h_claimed = h_last_accepted

\* C3: a response returned by a read was completely written by the worker
\* (the read does not touch the buffer while the worker is writing it) and
\* was written for the most recent Accepted prompt.
C3_ReadReturnsCompleteResponse ==
    h_read.kind = "response"
        => /\ ~h_read.writing
           /\ h_read.resp_for = h_read.last_accepted

\* C4: once a submit has set the pending flag, the flag is eventually
\* cleared for as long as the worker is not told to stop; the flag is
\* cleared only by the worker, at the end of a generation and with the
\* mutex held, and the worker claims a prompt only with the mutex held.
C4_PendingEventuallyCleared ==
    /\ (request_pending = 1) ~> (request_pending = 0 \/ should_stop)
    /\ [][(request_pending = 1 /\ request_pending' = 0)
             => (pc["worker"] = "w_clear" /\ lock = "worker")]_vars
    /\ [][h_claimed' # h_claimed => (pc["worker"] = "w_gen" /\ lock = "worker")]_vars

\* C4 happens: a submit was Accepted, the worker generated its response and
\* has just cleared the flag, still holding the mutex.
C4_Witness ==
    /\ pc["worker"] = "w_unlock"
    /\ request_pending = 0
    /\ lock = "worker"
    /\ h_claimed = h_last_accepted
    /\ \E p \in Producers : h_result[p] = "accepted"

\* C5: a request that is pending when the module is told to stop is still
\* drained: whatever shutdown does afterwards, the pending flag of a request
\* accepted before the stop is eventually cleared.
C5_ShutdownDrainsPending ==
    (request_pending = 1 /\ ~should_stop) ~> (request_pending = 0)

\* C6: a submit never blocks: no producer sits at mutex_lock while the
\* worker holds the mutex with a whole generation still to run.
C6_SubmitNeverWaitsForGeneration ==
    \A p \in Producers :
        ~(pc[p] = "p_lock" /\ lock = "worker" /\ pc["worker"] = "w_gen")

(***************************************************************************)
(* Properties of the inference driver.                                     *)
(***************************************************************************)

\* C7: an eval of T tokens at n_past with n_past + T beyond the KV-cache
\* capacity fails, so n_past and the cache fill count never exceed the
\* capacity.
C7_ContextOverflowRejected ==
    /\ (h_eval.ran /\ h_eval.n_past + Len(h_eval.tokens) > TEST_CTX) => h_eval.ret < 0
    /\ inf.n_past <= TEST_CTX
    /\ inf.cache_n <= TEST_CTX

\* C8: after every successful eval the logits buffer holds the logits that
\* pass computed, for every T and with or without output.weight.
C8_LogitsHoldLastPass ==
    (h_eval.ran /\ h_eval.ret = 0)
        => inf.logits = LogitsOfPass(h_eval.tokens, h_eval.n_past)

\* C9: after every successful eval n_past, the KV fill count and the number
\* of distinct cache positions written are all equal.
C9_NPastMatchesCache ==
    (h_eval.ran /\ h_eval.ret = 0)
        => /\ inf.n_past = inf.cache_n
           /\ inf.n_past = Cardinality(inf.cache_cells)

\* C10: two generations on the same prompt give the same result whatever
\* was served before them.
C10_SamePromptSameOutput ==
    \A q \in DriverPrompts : Cardinality(h_outputs[q]) <= 1

\* C11: whenever a generation fails (tokenization, the prompt eval, or an
\* eval inside the token loop after some tokens were produced), the response
\* the worker leaves for the reader is the error message, not a detokenized
\* text.
C11_FailureYieldsErrorText ==
    (gen.phase \in {"detok", "failed"} /\ GenerationFailed(gen)) =>
        LET res == GenerateResult(gen, WORKER_MAX_LENGTH)
        IN WorkerResponse(res) = ErrorText(res.ret)

(***************************************************************************)
(* Properties of the model load.                                           *)
(***************************************************************************)

\* C12: if any parser or assembler step fails on the model file (header,
\* metadata, tensor directory, validation, tensor-data load, binding of the
\* named tensors), the engine never becomes initialized and never serves a
\* prompt.
C12_LoadFailureIsFatal ==
    (initialized \/ ld.served) =>
        /\ FileLoadsCleanly(ld.file)
        /\ ld.data_loaded
        /\ ld.bound_all

(***************************************************************************)
(* Properties of the GGUF parsers.                                         *)
(***************************************************************************)

\* gguf_parse_metadata has been run on the file.
MetadataParsed ==
    pf.header.ret = 0 /\ pf.pc \in {"tensor_info", "tensor_data", "loaded", "failed", "undefined"}

\* gguf_parse_tensor_info has been run on the file.
TensorInfoParsed ==
    /\ pf.header.ret = 0 /\ pf.metadata.ub = "none" /\ pf.metadata.ret >= 0
    /\ pf.pc \in {"tensor_data", "loaded", "failed", "undefined"}

\* C13: on every well-formed file, whatever the value types of the keys the
\* parser does not interpret (scalars 0..12, strings, arrays of every element
\* type, nested arrays), metadata parsing succeeds and the cursor it returns
\* is the true end of the metadata directory.
C13_UninterpretedKeysSkipped ==
    (pf.file.wellformed /\ MetadataParsed) =>
        /\ pf.metadata.ub = "none"
        /\ pf.metadata.ret = pf.file.meta_end

\* C14: on any buffer, the metadata and tensor-directory parsers never read
\* a byte at or beyond the end of the buffer.
C14_ParsersStayInBuffer ==
    /\ pf.metadata.ub # "read_past_end"
    /\ pf.tensor_info.ub # "read_past_end"

\* Tensor t's bytes, taken from data_offset + offset, lie outside the file.
RangeOutsideFile(t) ==
    ~InBuf(pf.file.bytes, pf.tensor_info.data_offset + t.offset, t.size)

RECURSIVE SumSizes(_)
SumSizes(ts) == IF ts = << >> THEN 0 ELSE Head(ts).size + SumSizes(Tail(ts))

\* C15: gguf_load_tensor_data fails whenever some tensor's byte range lies
\* outside the file or the tensors do not fit in the destination, and it
\* never reads outside the file.
C15_LoadTensorDataBounded ==
    pf.tensor_data.ran =>
        LET ts == pf.tensor_info.tensors
        IN /\ pf.tensor_data.ub = "none"
           /\ (\E i \in 1..Len(ts) : RangeOutsideFile(ts[i])) => pf.tensor_data.ret < 0
           /\ SumSizes(ts) > pf.tensor_data.memory_size => pf.tensor_data.ret < 0

\* C16: parsing the minimal 24-byte file (magic, version 3, no tensors, no
\* metadata) succeeds, and the data region starts at 32, the end of the
\* tensor directory (24) rounded up to the 32-byte alignment.
C16_MinimalFileParses ==
    (pf.file = MinimalFile /\ pf.pc \in {"tensor_data", "loaded", "failed", "undefined"}) =>
        /\ pf.header.ret = 0
        /\ pf.metadata.ub = "none" /\ pf.metadata.ret = SIZEOF_GGUF_HEADER
        /\ pf.tensor_info.ub = "none" /\ pf.tensor_info.ret = 0
        /\ pf.tensor_info.data_offset = 32

\* C16 as the specification words it: the data region starts at 24.
C16_MinimalFileDataAt24 ==
    (pf.file = MinimalFile /\ pf.pc \in {"tensor_data", "loaded", "failed", "undefined"}) =>
        /\ pf.header.ret = 0
        /\ pf.metadata.ub = "none" /\ pf.metadata.ret = SIZEOF_GGUF_HEADER
        /\ pf.tensor_info.ub = "none" /\ pf.tensor_info.ret = 0
        /\ pf.tensor_info.data_offset = 24

\* The three parsers have run on the minimal file and all succeeded.
C16_Witness ==
    /\ pf.file = MinimalFile
    /\ Len(pf.file.bytes) = 24
    /\ pf.pc = "tensor_data"
    /\ pf.tensor_info.ret = 0

(***************************************************************************)
(* Properties of the arena and the tensor operations.                      *)
(***************************************************************************)

\* C17: after any sequence of tensor allocations and node-data reservations
\* the bump cursor mem_used does not exceed the slab size mem_size, whatever
\* the slab size (multiple of 32 or not).
C17_CursorWithinSlab == inf.mem_used <= hp.mem_size

\* Arena tensors the object table counts: the weights are outside the arena.
ArenaObjects(s) == s.n_objects - WeightObjects(hp)

\* C18: the cursor is never below the end of a tensor the object table still
\* counts: it is at or above the end of the KV cache, and above the
\* descriptors of every arena tensor counted, so a rewind restores cursor
\* and count to a snapshot the arena held.
C18_RewindRestoresSnapshot ==
    /\ inf.mem_used >= ArenaAfterLoad(hp)
    /\ inf.mem_used >= ArenaAfterLoad(hp)
           + (ArenaObjects(inf) - 2) * ALIGN(SIZEOF_TENSOR, GGML_TENSOR_ALIGN)

\* C19: no ADD or MUL tensor exists whose two operands have different
\* shapes: ggml_add and ggml_mul return NULL for such operands.
C19_ElementWiseShapesMatch ==
    \A i \in 1..Len(ar.tensors) :
        ar.tensors[i].op \in {"ADD", "MUL"} =>
            ar.tensors[ar.tensors[i].src0].ne = ar.tensors[ar.tensors[i].src1].ne

\* C20: when an operation of the forward pass returned NULL, at whatever
\* position, llama_eval reads nothing through the NULL pointer and returns
\* a negative value.
C20_NullPropagates ==
    (fw.pc \in {"returned", "oops"} /\ fw.first_null > 0) =>
        /\ fw.ub = "none"
        /\ fw.ret < 0

\* The llama_eval of the driver and the operation-by-operation pass agree:
\* on whether the call returns, and on what it returns and leaves behind.
ForwardMatchesDriver == fw.agrees

(***************************************************************************)
(* Properties of the quantization codec and the kernels.                   *)
(***************************************************************************)

\* The type pairs of a matrix multiplication for which the core has a kernel
\* that reads the weights as what they are.
HasKernel(type, type1) ==
    /\ type \in { GGML_TYPE_F32, GGML_TYPE_Q4_0, GGML_TYPE_Q4_K }
    /\ type1 = GGML_TYPE_F32

UnimplementedCall ==
    /\ qz.pc = "done"
    /\ \/ /\ qz.call = "dequantize_row"
          /\ qz.type \in { GGML_TYPE_Q5_K, GGML_TYPE_Q6_K, GGML_TYPE_Q8_K }
       \/ /\ qz.call = "mul_mat"
          /\ ~HasKernel(qz.type, qz.type1)

\* C21: a dequantization or a matrix multiplication asked for a tensor type
\* the core does not implement reports Unsupported to its caller and leaves
\* the output as it was: no values from a wrong reading of the bytes, no
\* zero fill, no silent return.
C21_UnsupportedIsReported ==
    UnimplementedCall => (qz.ret = "Unsupported" /\ qz.y = qz.stale)

\* The number a half denotes (IEEE 754 binary16, exponent field below 31).
HalfValue(h) ==
    LET exp  == (h \div 1024) % 32
        mant == h % 1024
        c    == IF exp = 0 THEN Canon(mant, -24) ELSE Canon(1024 + mant, exp - 25)
    IN [neg |-> (h \div 32768) % 2 = 1, sig |-> c.sig, pow |-> c.pow]

Q4KBlockDone ==
    /\ qz.pc = "done"
    /\ qz.call = "dequantize_row"
    /\ qz.type = GGML_TYPE_Q4_K

\* C23: the lanes of a dequantized 4-bit K-quant block, in units of 1/1024:
\* with every scale byte and every qs byte zero each lane is -dmin * min[j];
\* with d = 1, dmin = 0 and every scale 1 each lane is -8 for qs of 0x00 and
\* +7 for qs of 0xFF; with d = 1, dmin = 0, sixes in the scale bytes and
\* qs[0] = 0x78 the first two lanes are 0 and -6.
C23_Q4KLanes ==
    Q4KBlockDone =>
        LET b    == qz.x.blocks[1]
            dmin == F32Fixed(ggml_fp16_to_fp32(b.dmin))
            one  == b.d = 15360 /\ b.dmin = 0
        IN /\ ((\A i \in 1..K_SCALE_SIZE : b.scales[i] = 0)
               /\ (\A i \in 1..(QK_K \div 2) : b.qs[i] = 0)) =>
                 \A n \in 1..QK_K :
                    qz.y[n] = 0 - dmin * UnpackMin(b.scales, (n - 1) \div 16)
           /\ (one /\ \A j \in 0..15 : UnpackScale(b.scales, j) = 1) =>
                 /\ (\A i \in 1..(QK_K \div 2) : b.qs[i] = 0) =>
                       \A n \in 1..QK_K : qz.y[n] = -8 * 1024
                 /\ (\A i \in 1..(QK_K \div 2) : b.qs[i] = 255) =>
                       \A n \in 1..QK_K : qz.y[n] = 7 * 1024
           /\ (one /\ (\A i \in 1..8 : b.scales[i] = 6) /\ b.qs[1] = 120) =>
                 (qz.y[1] = 0 /\ qz.y[2] = -6 * 1024)

\* C26: on the thread that runs a kernel the floating-point register state is
\* acquired only while it is not held and released only while it is held, a
\* kernel that acquired it does no float arithmetic after a routine it
\* called released it, and a call that has returned does not hold it.
C26_FpuBalanced ==
    /\ qz.pc = "running" =>
          LET e == Head(qz.todo)
          IN /\ (e = "begin") => ~qz.held
             /\ (e = "end") => qz.held
             /\ (e = "fp" /\ qz.acquired) => qz.held
    /\ qz.pc = "done" => ~qz.held

(***************************************************************************)
(* Properties of the graph builder.                                        *)
(***************************************************************************)

\* The tensors t depends on through src0 and src1, t itself included.
RECURSIVE Reachable(_, _)
Reachable(tab, t) ==
    IF t = NULL_TENSOR THEN {}
    ELSE { t } \cup Reachable(tab, tab[t].src0) \cup Reachable(tab, tab[t].src1)

PositionsOf(x, q) == { i \in 1..Len(q) : q[i] = x }

GraphBuilt == ar.call = "build_forward" /\ ar.ret # NULL_TENSOR

\* C24: in a built graph every operation node the output depends on is in
\* the nodes list, and every node of the list comes after all the operation
\* nodes it depends on, so the executor, which walks the list in order,
\* computes the inputs of a node before the node.
C24_NodesInDependencyOrder ==
    GraphBuilt =>
        /\ \A t \in Reachable(ar.tensors, ar.ret) :
              ar.tensors[t].op # "NONE" => InSeq(t, ar.nodes)
        /\ \A i \in 1..Len(ar.nodes) :
              \A d \in Reachable(ar.tensors, ar.nodes[i]) \ { ar.nodes[i] } :
                 ar.tensors[d].op # "NONE" =>
                    \E j \in 1..(i - 1) : ar.nodes[j] = d

\* A graph of three operation nodes has been built in which one operation
\* is the source of the two others.
C24_Witness ==
    /\ GraphBuilt
    /\ Len(ar.nodes) = 3
    /\ \E d \in 1..Len(ar.tensors) :
          /\ ar.tensors[d].op # "NONE"
          /\ \E c1, c2 \in 1..Len(ar.tensors) :
                /\ c1 # c2
                /\ InSeq(c1, ar.nodes) /\ InSeq(c2, ar.nodes)
                /\ d \in { ar.tensors[c1].src0, ar.tensors[c1].src1 }
                /\ d \in { ar.tensors[c2].src0, ar.tensors[c2].src1 }

\* C25: in a built graph every operation node the output depends on is in
\* the nodes list exactly once and every leaf it depends on is in the leafs
\* list exactly once, also when a tensor is the source of several consumers,
\* and neither list is longer than GGML_MAX_NODES.
C25_NoDuplicates ==
    GraphBuilt =>
        /\ \A t \in Reachable(ar.tensors, ar.ret) :
              IF ar.tensors[t].op = "NONE"
              THEN Cardinality(PositionsOf(t, ar.leafs)) = 1
              ELSE Cardinality(PositionsOf(t, ar.nodes)) = 1
        /\ Len(ar.nodes) <= GGML_MAX_NODES
        /\ Len(ar.leafs) <= GGML_MAX_NODES

(***************************************************************************)
(* Properties of the graphs the driver executes.                           *)
(***************************************************************************)

\* Elements of a tensor: the product of its n_dims extents.
ElementsOf(t) == NeTotal(t.n_dims, t.ne)

\* C27: in the graph of a llama_eval that ran, the kernel of an ADD or MUL
\* node, which walks as many elements as the result has, reads only elements
\* both operands have: neither source has fewer elements than the result.
C27_ElementWiseReadsInBounds ==
    (fw.pc = "returned" /\ fw.ret = 0) =>
        \A i \in 1..Len(fw.graph.nodes) :
            LET node == fw.tab[fw.graph.nodes[i]]
            IN node.op \in { "ADD", "MUL" } =>
                  /\ ElementsOf(fw.tab[node.src0]) >= ElementsOf(node)
                  /\ ElementsOf(fw.tab[node.src1]) >= ElementsOf(node)

\* C28: every copy into the logits buffer and every scan of it stays within
\* the floats the buffer was allocated with: the buffer holds at least
\* n_vocab floats whenever eval copies n_vocab logits into it and whenever
\* sampling scans indices 0 .. n_vocab - 1.
C28_LogitsWithinCapacity == inf.logits_used <= inf.logits_cap

\* The prompt endpoint can be entered: proc_remove has not returned.
EndpointReachable == pc["exit"] # "removed"

\* C29: while the prompt endpoint is reachable the prompt and response
\* buffers are allocated and the worker exists, and no submit touches a
\* buffer that is unallocated or freed.
C29_EndpointOnlyWhileLive ==
    /\ EndpointReachable => (bufs = "live" /\ pc["worker"] # "stopped")
    /\ \A p \in Producers : pc[p] # "oops"

\* C30: the tensor-directory parser stores no extent outside the four-entry
\* dims array of a record, and a record that declares more than four
\* dimensions makes it return an error.
C30_DimsWithinArray ==
    /\ pf.tensor_info.ub # "dims_overrun"
    /\ (TensorInfoParsed /\ pf.file = FiveDimsFile) => pf.tensor_info.ret < 0

====
